---- MODULE Spec2Model ----
(***************************************************************************)
(* Task / iteration state machine of rover.                                *)
(*                                                                         *)
(* One task document (description.json) on disk, the iteration status      *)
(* documents under iterations/<n>/status.json, the sandboxed agent that    *)
(* writes them, and the CLI commands (task, restart, stop, iterate, merge, *)
(* push, list, delete) that mutate the task through TaskDescriptionManager.*)
(***************************************************************************)
EXTENDS Integers, FiniteSets, Sequences, TLC

\* ------------------------------------------------------------------ bounds
MaxTime == 3        \* the wall clock runs 1..MaxTime
MaxIter == 2        \* iterate is accepted while iterations < MaxIter
MaxRestarts == 2    \* restart is accepted while restartCount < MaxRestarts
MaxSteps == 2       \* a workflow has 1..MaxSteps steps
MaxChunks == 2      \* the agent process writes at most MaxChunks stderr chunks
MaxSpawns == 2      \* an ACP runner spawns at most MaxSpawns agent processes
MaxSessions == 2    \* an ACP connection creates at most MaxSessions sessions
MaxPrompts == 2     \* an ACP runner sends at most MaxPrompts prompts
MaxTokens == 2      \* a prompt template has 1..MaxTokens pieces
MaxWorkflowSteps == 4   \* a workflow has 1..MaxWorkflowSteps steps
MaxWords == 2       \* an error text has 0..MaxWords words, or is an idiom
MaxHooks == 3       \* the onComplete hooks are executed at most MaxHooks times

\* ------------------------------------------------------- values and fields
\* An optional field that is absent (JS undefined): numeric and string flavour.
UndefNum == 0 - 1
UndefStr == "undefined"

TaskStatus ==
  {"NEW", "IN_PROGRESS", "ITERATING", "COMPLETED", "FAILED",
   "PAUSED_CREDITS", "MERGED", "PUSHED"}

\* Fields of the task document that the model tracks.
NumFields ==
  {"iterations", "restartCount", "startedAt", "completedAt", "failedAt",
   "lastIterationAt", "lastStatusCheck", "lastRestartAt",
   "onCompleteHookFiredAt"}
StrFields == {"title", "status", "worktreePath", "containerId", "error", "version"}
Fields == NumFields \cup StrFields

Undef(k) == IF k \in NumFields THEN UndefNum ELSE UndefStr

\* Schema version written by this program.
CURRENT_TASK_DESCRIPTION_SCHEMA_VERSION == "1.5"

\* runCommand's failure message for a failed and for a credit-exhausted run.
FailureMessage(s) == IF s = "credit_exhausted" THEN "Quota exceeded" ELSE "Step failed"

VARIABLES
  disk,      \* description.json: [exists, json], and its .backup sibling
  mem,       \* this.data of the TaskDescriptionManager of the command in flight
  threw,     \* the last mutating method of that manager raised
  pc,        \* position of the command in flight ("idle" when none)
  out,       \* jsonOutput.success of the last command
  iters,     \* iterations/<n>: [dir, status, error, at] (status.json)
  sandbox,   \* the running agent container: [iter, phase, run] (iter 0: none)
  now,       \* wall clock (new Date())
  restarts,  \* restart() calls made since the task was created
  runner,    \* the step runner in flight: its locals and the result it returns
  writers    \* two other processes holding the task document: [procs, last]

vars ==
  <<disk, mem, threw, pc, out, iters, sandbox, now, restarts, runner, writers>>

\* ------------------------------------------- description.json (de)serialisation
\* Faulty Serialize: a key whose value is undefined is written out.
SerializeUndefined(data) == [k \in Fields |-> data[k]]

\* JSON.stringify(this.data, null, 2): a key whose value is undefined is dropped.
Serialize(data) == [k \in {f \in Fields : data[f] # Undef(f)} |-> data[k]]

\* JSON.parse followed by property reads: a key that is missing reads undefined.
Parse(json) == [k \in Fields |-> IF k \in DOMAIN json THEN json[k] ELSE Undef(k)]

NoJson == [k \in {} |-> UndefNum]

\* No other process holds the task document.
NoWriters ==
  [procs |-> [p \in {1, 2} |-> [stage |-> "none",
                                 data |-> [k \in Fields |-> Undef(k)]]],
   last |-> 0]
NoBackup == [exists |-> FALSE, json |-> NoJson]
NoFile == [exists |-> FALSE, json |-> NoJson, backup |-> NoBackup]
NoData == [k \in Fields |-> Undef(k)]

\* TaskDescriptionSchema.safeParse(data).success, on the tracked fields.
SchemaValid(data) ==
  /\ data.title \notin {UndefStr, ""}
  /\ data.status \in TaskStatus
  /\ data.iterations >= 1
  /\ data.worktreePath # UndefStr
  /\ data.version # UndefStr
  /\ data.restartCount = UndefNum \/ data.restartCount >= 0
  /\ \A k \in NumFields \ {"iterations", "restartCount"} :
       data[k] = UndefNum \/ data[k] >= 1

\* ------------------------------------------------ TaskDescriptionManager
\* A manager instance is [data, disk, threw]: this.data, the file it writes, and
\* whether one of its methods has raised (later calls are then not reached).
Manager(data, dk) == [data |-> data, disk |-> dk, threw |-> FALSE]

validate(data) == SchemaValid(data)

\* Faulty save: the file is written first and validated afterwards.
saveThenValidate(M) ==
  IF M.threw THEN M
  ELSE [M EXCEPT !.disk.exists = TRUE, !.disk.json = Serialize(M.data),
                 !.threw = ~validate(M.data)]

save(M) ==
  IF M.threw THEN M
  ELSE IF validate(M.data)
       THEN [M EXCEPT !.disk.exists = TRUE, !.disk.json = Serialize(M.data)]
       ELSE [M EXCEPT !.threw = TRUE]

Truthy(k, v) == IF k \in NumFields THEN v \notin {UndefNum, 0} ELSE v \notin {UndefStr, ""}

\* Faulty setStatus: a failure keeps the error the task already carries.
setStatusDataKeepError(d, status, timestamp, error) ==
  LET ts == IF timestamp # UndefNum THEN timestamp ELSE now
      d1 == [d EXCEPT !.status = status]
      d2 == CASE status = "IN_PROGRESS" ->
                   IF ~Truthy("startedAt", d1.startedAt)
                   THEN [d1 EXCEPT !.startedAt = ts] ELSE d1
              [] status = "ITERATING" -> [d1 EXCEPT !.lastIterationAt = ts]
              [] status = "COMPLETED" -> [d1 EXCEPT !.completedAt = ts]
              [] status \in {"FAILED", "PAUSED_CREDITS"} ->
                   IF Truthy("error", error) /\ ~Truthy("error", d1.error)
                   THEN [d1 EXCEPT !.failedAt = ts, !.error = error]
                   ELSE [d1 EXCEPT !.failedAt = ts]
              [] status \in {"MERGED", "PUSHED"} ->
                   IF ~Truthy("completedAt", d1.completedAt)
                   THEN [d1 EXCEPT !.completedAt = ts] ELSE d1
              [] OTHER -> d1
  IN [d2 EXCEPT !.lastStatusCheck = ts]

\* Faulty setStatus: MERGED and PUSHED stamp completedAt unconditionally.
setStatusDataRestamp(d, status, timestamp, error) ==
  LET ts == IF timestamp # UndefNum THEN timestamp ELSE now
      d1 == [d EXCEPT !.status = status]
      d2 == CASE status = "IN_PROGRESS" ->
                   IF ~Truthy("startedAt", d1.startedAt)
                   THEN [d1 EXCEPT !.startedAt = ts] ELSE d1
              [] status = "ITERATING" -> [d1 EXCEPT !.lastIterationAt = ts]
              [] status \in {"COMPLETED", "MERGED", "PUSHED"} ->
                   [d1 EXCEPT !.completedAt = ts]
              [] status \in {"FAILED", "PAUSED_CREDITS"} ->
                   IF Truthy("error", error)
                   THEN [d1 EXCEPT !.failedAt = ts, !.error = error]
                   ELSE [d1 EXCEPT !.failedAt = ts]
              [] OTHER -> d1
  IN [d2 EXCEPT !.lastStatusCheck = ts]

\* setStatus's assignments to this.data, before save().
setStatusData(d, status, timestamp, error) ==
  LET ts == IF timestamp # UndefNum THEN timestamp ELSE now
      d1 == [d EXCEPT !.status = status]
      d2 == CASE status = "IN_PROGRESS" ->
                   IF ~Truthy("startedAt", d1.startedAt)
                   THEN [d1 EXCEPT !.startedAt = ts] ELSE d1
              [] status = "ITERATING" -> [d1 EXCEPT !.lastIterationAt = ts]
              [] status = "COMPLETED" -> [d1 EXCEPT !.completedAt = ts]
              [] status \in {"FAILED", "PAUSED_CREDITS"} ->
                   IF Truthy("error", error)
                   THEN [d1 EXCEPT !.failedAt = ts, !.error = error]
                   ELSE [d1 EXCEPT !.failedAt = ts]
              [] status \in {"MERGED", "PUSHED"} ->
                   IF ~Truthy("completedAt", d1.completedAt)
                   THEN [d1 EXCEPT !.completedAt = ts] ELSE d1
              [] OTHER -> d1
  IN [d2 EXCEPT !.lastStatusCheck = ts]

setStatus(M, status, timestamp, error) ==
  IF M.threw THEN M
  ELSE save([M EXCEPT !.data = setStatusData(M.data, status, timestamp, error)])

markInProgress(M) == setStatus(M, "IN_PROGRESS", UndefNum, UndefStr)
markIterating(M) == setStatus(M, "ITERATING", UndefNum, UndefStr)
markMerged(M) == setStatus(M, "MERGED", UndefNum, UndefStr)
markPushed(M) == setStatus(M, "PUSHED", UndefNum, UndefStr)
\* Faulty resetToNew: the status is reset in memory and never saved.
resetToNewUnsaved(M) ==
  IF M.threw THEN M
  ELSE [M EXCEPT !.data = setStatusData(M.data, "NEW", UndefNum, UndefStr)]

resetToNew(M) == setStatus(M, "NEW", UndefNum, UndefStr)

\* Faulty restart: the counter restarts from 1 instead of being incremented.
restartFromOne(M, timestamp) ==
  IF M.threw THEN M
  ELSE LET restartTimestamp == IF timestamp # UndefNum THEN timestamp ELSE now
       IN setStatus([M EXCEPT !.data.restartCount = 1,
                              !.data.lastRestartAt = restartTimestamp],
                    "IN_PROGRESS", restartTimestamp, UndefStr)

restart(M, timestamp) ==
  IF M.threw THEN M
  ELSE LET restartTimestamp == IF timestamp # UndefNum THEN timestamp ELSE now
           count == IF Truthy("restartCount", M.data.restartCount)
                    THEN M.data.restartCount ELSE 0
       IN setStatus([M EXCEPT !.data.restartCount = count + 1,
                              !.data.lastRestartAt = restartTimestamp],
                    "IN_PROGRESS", restartTimestamp, UndefStr)

\* Faulty incrementIteration: the counter is left as it is.
incrementIterationStamped(M) ==
  IF M.threw THEN M ELSE save([M EXCEPT !.data.lastIterationAt = now])

incrementIteration(M) ==
  IF M.threw THEN M
  ELSE save([M EXCEPT !.data.iterations = @ + 1, !.data.lastIterationAt = now])

setWorkspace(M, worktreePath) ==
  IF M.threw THEN M ELSE save([M EXCEPT !.data.worktreePath = worktreePath])

updateTitle(M, title) ==
  IF M.threw THEN M ELSE save([M EXCEPT !.data.title = title])

\* Faulty setContainerInfo: the container id is set in memory and never saved.
setContainerInfoUnsaved(M, containerId) ==
  IF M.threw THEN M ELSE [M EXCEPT !.data.containerId = containerId]

setContainerInfo(M, containerId) ==
  IF M.threw THEN M ELSE save([M EXCEPT !.data.containerId = containerId])

\* Faulty setOnCompleteHookFiredAt: the timestamp is not saved.
setOnCompleteHookFiredAtUnsaved(M, timestamp) ==
  IF M.threw THEN M ELSE [M EXCEPT !.data.onCompleteHookFiredAt = timestamp]

setOnCompleteHookFiredAt(M, timestamp) ==
  IF M.threw THEN M ELSE save([M EXCEPT !.data.onCompleteHookFiredAt = timestamp])

\* TaskDescriptionManager.create: the initial document, validated and saved.
create(title) ==
  save(Manager([NoData EXCEPT !.title = title, !.status = "NEW",
                              !.startedAt = now, !.lastIterationAt = now,
                              !.iterations = 1, !.worktreePath = "",
                              !.version = CURRENT_TASK_DESCRIPTION_SCHEMA_VERSION],
               NoFile))

\* String.prototype.toLowerCase on the status spellings the model draws.
toLowerCase(s) ==
  CASE s = "NEW" -> "new"
    [] s = "IN_PROGRESS" -> "in_progress"
    [] s = "ITERATING" -> "iterating"
    [] s = "COMPLETED" -> "completed"
    [] s = "FAILED" -> "failed"
    [] s = "PAUSED_CREDITS" -> "paused_credits"
    [] s \in {"MERGED", "Merged"} -> "merged"
    [] s = "PUSHED" -> "pushed"
    [] OTHER -> s

migrateStatus(oldStatus) ==
  IF oldStatus = UndefStr THEN "NEW"
  ELSE LET l == toLowerCase(oldStatus)
       IN CASE l = "new" -> "NEW"
            [] l \in {"in_progress", "running"} -> "IN_PROGRESS"
            [] l = "iterating" -> "ITERATING"
            [] l = "completed" -> "COMPLETED"
            [] l = "failed" -> "FAILED"
            [] l = "paused_credits" -> "PAUSED_CREDITS"
            [] l = "merged" -> "MERGED"
            [] l = "pushed" -> "PUSHED"
            [] OTHER -> "NEW"

\* data[k] || dflt
OrElse(data, k, dflt) == IF Truthy(k, data[k]) THEN data[k] ELSE dflt

\* TaskDescriptionManager.migrate: a document at the current version is returned
\* as it is; any other gets defaults, the current status spelling and the
\* current version.  error and onCompleteHookFiredAt are carried over.
migrate(data) ==
  IF data.version = CURRENT_TASK_DESCRIPTION_SCHEMA_VERSION THEN data
  ELSE [data EXCEPT
          !.title = OrElse(data, "title", "Unknown Task"),
          !.status = migrateStatus(data.status),
          !.iterations = OrElse(data, "iterations", 1),
          !.worktreePath = OrElse(data, "worktreePath", ""),
          !.version = CURRENT_TASK_DESCRIPTION_SCHEMA_VERSION,
          !.containerId = OrElse(data, "containerId", ""),
          !.startedAt = OrElse(data, "startedAt", UndefNum),
          !.completedAt = OrElse(data, "completedAt", UndefNum),
          !.failedAt = OrElse(data, "failedAt", UndefNum),
          !.lastIterationAt = OrElse(data, "lastIterationAt", UndefNum),
          !.lastStatusCheck = OrElse(data, "lastStatusCheck", UndefNum),
          !.restartCount = OrElse(data, "restartCount", 0),
          !.lastRestartAt = OrElse(data, "lastRestartAt", UndefNum)]

\* Faulty createBackup: the copy is taken of the migrated document.
createBackupOfMigrated(M) ==
  [M EXCEPT !.disk.backup = [exists |-> TRUE, json |-> Serialize(M.data)]]

\* copyFileSync(filePath, filePath + '.backup')
createBackup(M) ==
  [M EXCEPT !.disk.backup = [exists |-> TRUE, json |-> M.disk.json]]

\* TaskDescriptionManager.load: read, parse, migrate; a migrated document is
\* backed up and saved.
load(dk) ==
  LET parsedData == Parse(dk.json)
      migratedData == migrate(parsedData)
      instance == Manager(migratedData, dk)
  IN IF migratedData.version # parsedData.version
     THEN save(createBackup(instance))
     ELSE instance

\* ------------------------------------------------ iterations/<n>/status.json
Iterations == 1..MaxIter
IterTerminal == {"completed", "failed", "credit_exhausted"}

\* No iteration directory / a directory whose status.json is not written yet.
NoIter == [dir |-> FALSE, status |-> "missing", error |-> UndefStr, at |-> UndefNum]
NewIter == [NoIter EXCEPT !.dir = TRUE]

\* The status document's updatedAt and completedAt: every write stamps updatedAt,
\* and the terminal write stamps completedAt as well.
updatedAt(st) == st.at
completedAt(st) == IF st.status \in IterTerminal THEN st.at ELSE UndefNum

\* Faulty getLastIteration: the lowest-numbered iteration directory.
getFirstIteration ==
  IF \E i \in Iterations : iters[i].dir
  THEN CHOOSE i \in Iterations :
         iters[i].dir /\ \A j \in Iterations : iters[j].dir => i <= j
  ELSE 0

\* getLastIteration: the highest-numbered iteration directory (0: none).
getLastIteration ==
  IF \E i \in Iterations : iters[i].dir
  THEN CHOOSE i \in Iterations :
         iters[i].dir /\ \A j \in Iterations : iters[j].dir => j <= i
  ELSE 0

\* The switch of updateStatusFromIteration.
DerivedStatus(s) ==
  CASE s = "completed" -> "COMPLETED"
    [] s = "failed" -> "FAILED"
    [] s = "credit_exhausted" -> "PAUSED_CREDITS"
    [] s = "running" -> "ITERATING"
    [] OTHER -> "IN_PROGRESS"

\* Faulty updateStatusFromIteration: a derived COMPLETED is never suppressed.
updateStatusNotSticky(M) ==
  IF M.threw THEN M
  ELSE
    LET id == getLastIteration IN
    IF id = 0 THEN M
    ELSE
      LET status == iters[id]
          statusName == DerivedStatus(status.status)
          timestamp == IF status.status \in IterTerminal
                       THEN completedAt(status) ELSE updatedAt(status)
          error == IF status.status \in {"failed", "credit_exhausted"}
                   THEN status.error ELSE UndefStr
      IN IF status.status = "missing" THEN [M EXCEPT !.threw = TRUE]
         ELSE setStatus(M, statusName, timestamp, error)

updateStatusFromIteration(M) ==
  IF M.threw THEN M
  ELSE
    LET id == getLastIteration IN
    IF id = 0 THEN M
    ELSE
      LET status == iters[id]
          statusName == DerivedStatus(status.status)
          timestamp == IF status.status \in IterTerminal
                       THEN completedAt(status) ELSE updatedAt(status)
          error == IF status.status \in {"failed", "credit_exhausted"}
                   THEN status.error ELSE UndefStr
      IN IF status.status = "missing" THEN [M EXCEPT !.threw = TRUE]
         ELSE IF statusName = "COMPLETED" /\ M.data.status \in {"MERGED", "PUSHED"}
         THEN M
         ELSE setStatus(M, statusName, timestamp, error)

\* ------------------------------------------------------------ the commands
Out(success) == [success |-> success]

\* What every command leaves behind: the file, the manager it used, its output.
Finish(M, success) ==
  /\ disk' = M.disk
  /\ mem' = M.data
  /\ threw' = M.threw
  /\ out' = Out(success)
  /\ UNCHANGED <<writers, runner>>

\* Faulty predicates: a running task counts as new, a failed one as completed.
isNewOrInProgress(d) == d.status \in {"NEW", "IN_PROGRESS"}
isCompletedOrFailed(d) == d.status \in {"COMPLETED", "FAILED"}

\* The status predicates of the task.
isCompleted(d) == d.status = "COMPLETED"
isFailed(d) == d.status = "FAILED"
isPausedCredits(d) == d.status = "PAUSED_CREDITS"
isInProgress(d) == d.status = "IN_PROGRESS"
isIterating(d) == d.status = "ITERATING"
isNew(d) == d.status = "NEW"
isMerged(d) == d.status = "MERGED"
isPushed(d) == d.status = "PUSHED"

\* runCommand's locals before the workflow is loaded: the workflow's
\* continueOnError and step count, the loop index, runSteps, the number of keys
\* of stepsOutput, the step results so far, lastFailureCause and output.success;
\* visible: the steps whose outputs stepsOutput holds (for the others it holds
\* nothing or an empty map); thrown and broken: an exception is on its way to
\* the catch block, the loop was left by break.
NoRun ==
  [continueOnError |-> FALSE, totalSteps |-> 0, stepIndex |-> 0, runSteps |-> 0,
   stepsOutput |-> 0, stepResults |-> << >>, lastFailureCause |-> "null",
   success |-> FALSE, visible |-> {}, thrown |-> FALSE, broken |-> FALSE]

NoSandbox == [iter |-> 0, phase |-> "off", run |-> NoRun]
Started(n) == [iter |-> n, phase |-> "boot", run |-> NoRun]
ContainerId == "c1"
Workspace == "ws"

\* mkdirSync(iterationPath, {recursive: true}) and the initial iteration.json:
\* an existing directory, and the status.json in it, are kept.
EnsureIteration(its, n) == [its EXCEPT ![n] = IF @.dir THEN @ ELSE NewIter]

\* restartCommand, up to the await of the sandbox start.
restartCommand ==
  /\ pc = "idle" /\ disk.exists
  /\ LET task == load(disk) IN
     IF ~isNew(task.data) /\ ~isFailed(task.data) /\ ~isPausedCredits(task.data)
     THEN /\ Finish(task, FALSE)
          /\ UNCHANGED <<writers, runner, pc, iters, sandbox, now, restarts>>
     ELSE /\ restarts < MaxRestarts
          /\ \E gitOk \in BOOLEAN, setupOk \in BOOLEAN :
               LET t1 == restart(task, now)
                   t2 == IF ~Truthy("worktreePath", t1.data.worktreePath) /\ gitOk
                         THEN setWorkspace(t1, Workspace) ELSE t1
               IN IF setupOk
                  THEN /\ iters' = EnsureIteration(iters, t2.data.iterations)
                       /\ Finish(markInProgress(t2), FALSE)
                       /\ pc' = "restart_sandbox"
                  ELSE /\ Finish(t2, FALSE)
                       /\ UNCHANGED <<writers, runner, pc, iters>>
          /\ restarts' = restarts + 1
          /\ UNCHANGED <<writers, runner, sandbox, now>>

\* restartCommand, from the sandbox start to its end.
restartSandbox ==
  /\ pc = "restart_sandbox"
  /\ \E started \in BOOLEAN :
       IF started
       THEN /\ Finish(setContainerInfo(Manager(mem, disk), ContainerId), TRUE)
            /\ sandbox' = Started(mem.iterations)
       ELSE /\ Finish(resetToNew(Manager(mem, disk)), FALSE)
            /\ UNCHANGED sandbox
  /\ pc' = "idle"
  /\ UNCHANGED <<writers, runner, iters, now, restarts>>

\* taskCommand / createTaskForAgent, up to the first await after markInProgress.
taskCommand ==
  /\ pc = "idle" /\ ~disk.exists
  /\ \E gitOk \in BOOLEAN :
       LET task == create("Fix bug") IN
       IF gitOk
       THEN /\ iters' = EnsureIteration(iters, task.data.iterations)
            /\ Finish(markInProgress(setWorkspace(task, Workspace)), FALSE)
            /\ pc' = "task_sandbox"
       ELSE /\ Finish(task, FALSE)
            /\ UNCHANGED <<writers, runner, pc, iters>>
  /\ restarts' = 0
  /\ UNCHANGED <<writers, runner, sandbox, now>>

\* createTaskForAgent after markInProgress: context fetch (contextOk), AI
\* expansion of the title (expanded; undefined when there is none), sandbox
\* start (started).
startTask(contextOk, expanded, started) ==
  /\ pc = "task_sandbox"
  /\ LET task == Manager(mem, disk)
         t1 == IF expanded = UndefStr THEN task ELSE updateTitle(task, expanded)
     IN IF ~contextOk
        THEN Finish(task, FALSE) /\ UNCHANGED sandbox
        ELSE IF t1.threw
        THEN Finish(t1, FALSE) /\ UNCHANGED sandbox
        ELSE IF started
        THEN /\ Finish(setContainerInfo(load(t1.disk), ContainerId), TRUE)
             /\ sandbox' = Started(t1.data.iterations)
        ELSE Finish(resetToNew(t1), FALSE) /\ UNCHANGED sandbox
  /\ pc' = "idle"
  /\ UNCHANGED <<writers, runner, iters, now, restarts>>

taskSandbox ==
  \E contextOk \in BOOLEAN, expanded \in {UndefStr, "", "Fix bug"},
     started \in BOOLEAN : startTask(contextOk, expanded, started)

\* stopCommand.
stopCommand ==
  /\ pc = "idle" /\ disk.exists
  /\ LET task == load(disk) IN
     \E stopped \in IF Truthy("containerId", task.data.containerId)
                     THEN BOOLEAN ELSE {TRUE} :
       IF ~stopped
       THEN Finish(task, FALSE) /\ UNCHANGED <<writers, runner, iters, sandbox>>
       ELSE /\ Finish(setWorkspace(setContainerInfo(resetToNew(task), ""), ""), TRUE)
            /\ iters' = [i \in Iterations |-> NoIter]
            /\ sandbox' = NoSandbox
  /\ UNCHANGED <<writers, runner, pc, now, restarts>>

\* iterateCommand, up to the await of the sandbox start.
iterateCommand ==
  /\ pc = "idle" /\ disk.exists
  /\ LET task == load(disk) IN
     \E wsExists \in IF Truthy("worktreePath", task.data.worktreePath)
                      THEN BOOLEAN ELSE {FALSE} :
       IF ~wsExists
       THEN Finish(task, FALSE) /\ UNCHANGED <<writers, runner, pc, iters>>
       ELSE IF isInProgress(task.data) \/ isIterating(task.data)
       THEN Finish(task, FALSE) /\ UNCHANGED <<writers, runner, pc, iters>>
       ELSE /\ task.data.iterations < MaxIter
            /\ iters' = EnsureIteration(iters, task.data.iterations + 1)
            /\ Finish(markIterating(incrementIteration(task)), FALSE)
            /\ pc' = "iterate_sandbox"
  /\ UNCHANGED <<writers, runner, sandbox, now, restarts>>

\* iterateCommand, from the sandbox start to its end.
iterateSandbox ==
  /\ pc = "iterate_sandbox"
  /\ \E started \in BOOLEAN :
       IF started
       THEN /\ Finish(setContainerInfo(Manager(mem, disk), ContainerId), TRUE)
            /\ sandbox' = Started(mem.iterations)
       ELSE Finish(Manager(mem, disk), FALSE) /\ UNCHANGED sandbox
  /\ pc' = "idle"
  /\ UNCHANGED <<writers, runner, iters, now, restarts>>

\* What git and the user answer to a merge / a push.
MergeOutcomes ==
  {"no_worktree", "nothing", "merged", "conflicts_resolved", "merge_failed"}
PushOutcomes == {"no_worktree", "nothing", "pushed", "push_failed"}

\* mergeCommand.
mergeCommand ==
  /\ pc = "idle" /\ disk.exists
  /\ LET task == load(disk) IN
     IF isPushed(task.data) THEN Finish(task, FALSE)
     ELSE IF isMerged(task.data) THEN Finish(task, FALSE)
     ELSE IF ~isCompleted(task.data) THEN Finish(task, FALSE)
     ELSE IF ~Truthy("worktreePath", task.data.worktreePath)
     THEN Finish(task, FALSE)
     ELSE \E git \in MergeOutcomes :
            IF git = "no_worktree" THEN Finish(task, FALSE)
            ELSE IF git = "nothing" THEN Finish(task, TRUE)
            ELSE IF git \in {"merged", "conflicts_resolved"}
            THEN Finish(markMerged(task), TRUE)
            ELSE Finish(task, FALSE)
  /\ UNCHANGED <<writers, runner, pc, iters, sandbox, now, restarts>>

\* pushCommand.
pushCommand ==
  /\ pc = "idle" /\ disk.exists
  /\ LET task == load(disk) IN
     IF ~Truthy("worktreePath", task.data.worktreePath)
     THEN Finish(task, FALSE)
     ELSE \E git \in PushOutcomes :
            IF git = "no_worktree" THEN Finish(task, FALSE)
            ELSE IF git = "nothing" THEN Finish(task, TRUE)
            ELSE IF git = "pushed" THEN Finish(markPushed(task), TRUE)
            ELSE Finish(task, FALSE)
  /\ UNCHANGED <<writers, runner, pc, iters, sandbox, now, restarts>>

\* listCommand, for the one task: status refresh and onComplete hooks.
listCommand ==
  /\ pc = "idle" /\ disk.exists
  /\ LET task == updateStatusFromIteration(load(disk))
         isTerminalStatus ==
           task.data.status \in {"COMPLETED", "FAILED", "PAUSED_CREDITS"}
         hookAlreadyFired ==
           task.data.onCompleteHookFiredAt = task.data.lastStatusCheck
     IN IF task.threw THEN Finish(task, TRUE)
        ELSE IF isTerminalStatus /\ ~hookAlreadyFired
        THEN \E hooksConfigured \in BOOLEAN :
               IF hooksConfigured
               THEN Finish(setOnCompleteHookFiredAt(task, task.data.lastStatusCheck), TRUE)
               ELSE Finish(task, TRUE)
        ELSE Finish(task, TRUE)
  /\ UNCHANGED <<writers, runner, pc, iters, sandbox, now, restarts>>

\* deleteCommand: project.deleteTask removes the task directory.
deleteCommand ==
  /\ pc = "idle" /\ disk.exists
  /\ disk' = NoFile
  /\ mem' = NoData
  /\ threw' = FALSE
  /\ out' = Out(TRUE)
  /\ iters' = [i \in Iterations |-> NoIter]
  /\ sandbox' = NoSandbox
  /\ restarts' = 0
  /\ UNCHANGED <<writers, runner, pc, now>>

\* ---------------------------------------------- the agent in the sandbox
WriteStatus(n, status, error) ==
  iters' = [iters EXCEPT ![n] = [dir |-> TRUE, status |-> status,
                                 error |-> error, at |-> now]]

\* runCommand: IterationStatusManager.createInitial.
agentInit ==
  /\ sandbox.phase = "boot" /\ iters[sandbox.iter].dir
  /\ WriteStatus(sandbox.iter, "initializing", UndefStr)
  /\ sandbox' = [sandbox EXCEPT !.phase = "steps"]
  /\ UNCHANGED <<writers, runner, disk, mem, threw, pc, out, now, restarts>>

\* Runner.run: statusManager.update('running', step, progress).
agentStep ==
  /\ sandbox.phase = "steps" /\ iters[sandbox.iter].dir
  /\ WriteStatus(sandbox.iter, "running", UndefStr)
  /\ UNCHANGED <<writers, runner, disk, mem, threw, pc, out, sandbox, now, restarts>>

\* runCommand: complete / fail / failCreditExhausted, then process.exit.
agentEnd ==
  /\ sandbox.phase = "steps" /\ iters[sandbox.iter].dir
  /\ \/ WriteStatus(sandbox.iter, "completed", UndefStr)
     \/ \E s \in {"failed", "credit_exhausted"} :
          WriteStatus(sandbox.iter, s, FailureMessage(s))
  /\ sandbox' = NoSandbox
  /\ UNCHANGED <<writers, runner, disk, mem, threw, pc, out, now, restarts>>

\* ------------------------------------------------ runCommand, step by step
\* What a runner returns to runCommand: success, and the error code, which is
\* set for a credit-exhausted failure only.
RunnerStepResults ==
  {[success |-> TRUE, errorCode |-> UndefStr],
   [success |-> FALSE, errorCode |-> UndefStr],
   [success |-> FALSE, errorCode |-> "CREDIT_EXHAUSTED"]}

\* runCommand up to the step loop: the status document is created, the
\* workflow is loaded and the inputs are validated.
runInit ==
  /\ sandbox.phase = "boot" /\ iters[sandbox.iter].dir
  /\ WriteStatus(sandbox.iter, "initializing", UndefStr)
  /\ \E continueOnError \in BOOLEAN, totalSteps \in 1..MaxSteps, valid \in BOOLEAN :
       sandbox' = [sandbox EXCEPT
                     !.phase = IF valid THEN "steps" ELSE "exit",
                     !.run = [NoRun EXCEPT !.continueOnError = continueOnError,
                                           !.totalSteps = totalSteps]]
  /\ UNCHANGED <<writers, runner, disk, mem, threw, pc, out, now, restarts>>

\* One turn of the step loop: the runner reports 'running' and returns a
\* result, or the session cannot be set up and the loop is left by an exception.
runStep ==
  /\ sandbox.phase = "steps" /\ iters[sandbox.iter].dir
  /\ sandbox.run.stepIndex < sandbox.run.totalSteps
  /\ LET r == sandbox.run
         r1 == [r EXCEPT !.runSteps = @ + 1]
     IN \/ /\ UNCHANGED iters
           /\ sandbox' = [sandbox EXCEPT !.phase = "exit", !.run = r1]
        \/ /\ WriteStatus(sandbox.iter, "running", UndefStr)
           /\ \E result \in RunnerStepResults :
                LET r2 == [r1 EXCEPT !.stepResults = Append(@, result)]
                    last == r.stepIndex + 1 = r.totalSteps
                IN IF result.success \/ r.continueOnError
                   THEN sandbox' =
                          [sandbox EXCEPT
                             !.phase = IF last THEN "summary" ELSE "steps",
                             !.run = [r2 EXCEPT !.stepsOutput = @ + 1,
                                                !.stepIndex = @ + 1]]
                   ELSE sandbox' =
                          [sandbox EXCEPT
                             !.phase = "summary",
                             !.run = [r2 EXCEPT
                                        !.lastFailureCause = result.errorCode]]
  /\ UNCHANGED <<writers, runner, disk, mem, threw, pc, out, now, restarts>>

\* The execution summary: failedSteps is runSteps less the keys of stepsOutput;
\* a run without failed steps is completed.
runSummary ==
  /\ sandbox.phase = "summary" /\ iters[sandbox.iter].dir
  /\ LET failedSteps == sandbox.run.runSteps - sandbox.run.stepsOutput
     IN IF failedSteps > 0
        THEN /\ sandbox' = [sandbox EXCEPT !.phase = "exit", !.run.success = FALSE]
             /\ UNCHANGED iters
        ELSE /\ sandbox' = [sandbox EXCEPT !.phase = "exit", !.run.success = TRUE]
             /\ WriteStatus(sandbox.iter, "completed", UndefStr)
  /\ UNCHANGED <<writers, runner, disk, mem, threw, pc, out, now, restarts>>

\* The end of runCommand: an unsuccessful run is failed, or failed for credit
\* exhaustion when that is the code of lastFailureCause; then process.exit.
runExit ==
  /\ sandbox.phase = "exit" /\ iters[sandbox.iter].dir
  /\ IF ~sandbox.run.success
     THEN IF sandbox.run.lastFailureCause = "CREDIT_EXHAUSTED"
          THEN WriteStatus(sandbox.iter, "credit_exhausted",
                           FailureMessage("credit_exhausted"))
          ELSE WriteStatus(sandbox.iter, "failed", FailureMessage("failed"))
     ELSE UNCHANGED iters
  /\ sandbox' = NoSandbox
  /\ UNCHANGED <<writers, runner, disk, mem, threw, pc, out, now, restarts>>

\* ------------------------------------------------ Runner.run (subprocess)
\* No output entry.
NoOutputs == [k \in {} |-> ""]

\* What launch() resolves to: the exit code (undefined when the process was
\* killed), timedOut, isCanceled, and whether stderr or stdout carries one of
\* the credit-exhaustion phrases.
LaunchResults ==
  [exitCode : {0, 1, UndefNum}, timedOut : BOOLEAN, isCanceled : BOOLEAN,
   credit : BOOLEAN]

NoResult ==
  [exitCode |-> UndefNum, timedOut |-> FALSE, isCanceled |-> FALSE, credit |-> FALSE]

\* The sentinel values of outputs that could not be obtained.
NotFound == "[Not found in response]"
CouldNotExtract == "[Could not extract from response]"
FileNotCreated == "[File not created]"
MissingFilename == "[Missing filename]"
CouldNotReadFile == "[Could not read file]"

\* A response text, by what the extraction can make of it: the whole text is a
\* JSON object, it holds a fenced json block with an object, a fenced block
\* that does not parse, no JSON at all, a JSON scalar, or JSON null; has: the
\* object has the declared output as a member.  NoText: not a string (undefined).
Texts ==
  {[kind |-> k, has |-> h] : k \in {"object", "fenced"}, h \in BOOLEAN}
    \cup {[kind |-> k, has |-> FALSE] : k \in {"fencedBad", "plain", "scalar", "null"}}

NoText == [kind |-> "undefined", has |-> FALSE]

\* What the agent process printed: the text, and for a text that is a JSON
\* object its result / content / message member (NoText: it has none).
RawOutputs ==
  {[text |-> t, result |-> NoText] : t \in Texts}
    \cup {[text |-> [kind |-> "object", has |-> FALSE], result |-> r] : r \in Texts}

\* The declared file output: no filename in the declaration, the file was
\* created, it was not, or it cannot be copied or read.
FileStates == {"missingFilename", "exists", "absent", "unreadable"}

\* ACPRunner's connection state after construction: no agent process, no
\* connection, no client, no session. agentProcess is "null", "alive" (a
\* spawned process with its streams) or "failed" (the object of a spawn that
\* gave no streams); sessionId 0 is null. The client is the capturing shim:
\* whether it captures, and the steps whose text it holds. pending is the
\* prompt being awaited, prompts the number of prompts sent, response the steps
\* whose text the last settled prompt returned, raised whether the last call
\* raised, last the last method called; spawns, handshakes, sessions and alive
\* count the processes started, the handshakes attempted, the sessions created
\* and the agent processes running.
NoAcp ==
  [agentProcess |-> "null", connection |-> FALSE, client |-> FALSE,
   sessionId |-> 0, isConnectionInitialized |-> FALSE,
   isSessionCreated |-> FALSE, capturing |-> FALSE, captured |-> {},
   pending |-> FALSE, prompts |-> 0, response |-> {}, raised |-> FALSE,
   last |-> "new", spawns |-> 0, handshakes |-> 0, sessions |-> 0, alive |-> 0]

\* A string that is undefined, and a string as the sequence of its pieces.
NoValue == [def |-> FALSE, text |-> << >>]
Str(text) == [def |-> TRUE, text |-> text]

\* What a runner builds a prompt from and what it builds: the runner ("run"
\* for Runner.prompt, "acp" for buildACPPrompt), the step's template, the
\* inputs a and b, the outputs recorded for step s1 ("none": not executed,
\* "empty": an empty map, "full": o, f, raw_output and input_prompt), the
\* state of the file of output f; the final prompt and the warnings.
NoPrompt ==
  [kind |-> "none", template |-> << >>, a |-> NoValue, b |-> NoValue,
   s1 |-> "none", file |-> "missing", final |-> << >>, warnings |-> << >>,
   built |-> FALSE]

\* The progress of one workflow run: which runner executes the steps ("run":
\* Runner, "acp": ACPRunner), the number of steps of the workflow, the index of
\* the step at hand, whether that step has started, whether the loop has been
\* left, and the progress values passed to statusManager.update, in order.
NoProgress ==
  [kind |-> "none", totalSteps |-> 0, stepIndex |-> 0, started |-> FALSE,
   stopped |-> FALSE, written |-> << >>]

\* A failure handed to the classifiers: the value caught (kind "null",
\* "undefined", "error": an Error with a message, "output": an object with the
\* stderr and stdout of a process), and what isCreditExhaustedError and
\* parseAgentError have answered for it.
NoClassified ==
  [kind |-> "none", message |-> << >>, stderr |-> << >>,
   stdout |-> [json |-> FALSE, text |-> << >>, type |-> << >>, code |-> << >>,
               message |-> << >>],
   asked |-> FALSE, credit |-> FALSE, parsed |-> FALSE, class |-> "none",
   code |-> UndefStr, isRetryable |-> FALSE, embedded |-> FALSE]

\* The onComplete hooks of the project: how many workflow runs of the task have
\* ended so far, the runs (by that number) for which executeHooks has run the
\* hooks, in order, and whether the project had hooks at the last refresh.
NoHooks == [arrivals |-> 0, executed |-> << >>, configured |-> FALSE]

\* No runner; a runner constructed for a step: whether it has a status manager,
\* the step's timeout in seconds, whether the agent has a recoverFromError hook,
\* the tool, whether the step declares the string output "summary" and the
\* file output "plan", and whether that string output's name is not the source
\* of a regular expression; outputName: the name under which the step of the
\* subprocess runner declares its string output.
NoRunner ==
  [phase |-> "off", statusManager |-> FALSE, timeout |-> 0, hook |-> FALSE,
   tool |-> "none", strings |-> FALSE, files |-> FALSE, badName |-> FALSE,
   authDetected |-> FALSE, stderrBuffer |-> FALSE, aborts |-> 0, chunks |-> 0,
   result |-> NoResult, recovery |-> "none", agentError |-> "none",
   raw |-> [text |-> NoText, result |-> NoText], file |-> "none",
   errorTimeout |-> 0, outputs |-> NoOutputs, success |-> FALSE,
   errorCode |-> UndefStr, acp |-> NoAcp, prompt |-> NoPrompt,
   progress |-> NoProgress, classified |-> NoClassified, hooks |-> NoHooks,
   outputName |-> "summary"]

\* errors.js, the classified errors: code and isRetryable of each class.
ErrorClasses ==
  {"AuthenticationError", "TimeoutError", "CreditExhaustedError", "AgentError"}

ErrorCode(class) ==
  CASE class = "AuthenticationError" -> "AUTHENTICATION_REQUIRED"
    [] class = "TimeoutError" -> "TIMEOUT"
    [] class = "CreditExhaustedError" -> "CREDIT_EXHAUSTED"
    [] OTHER -> "AGENT_ERROR"

isRetryable(class) == class = "CreditExhaustedError"

\* errors.js parseAgentError(stderr, stdout, exitCode, tool): a credit-exhaustion
\* phrase in the text gives CreditExhaustedError, anything else AgentError.
parseAgentError(credit) ==
  IF credit THEN "CreditExhaustedError" ELSE "AgentError"

\* Runner.run up to launch(): the status is reported and the process started.
runnerLaunch ==
  /\ runner.phase = "new"
  /\ IF runner.statusManager
     THEN WriteStatus(1, "running", UndefStr)
     ELSE UNCHANGED iters
  /\ runner' = [runner EXCEPT !.phase = "monitoring"]
  /\ UNCHANGED <<writers, disk, mem, threw, pc, out, sandbox, now, restarts>>

\* Faulty detector: every chunk that leaves the buffer matching aborts again.
detectEveryChunk(R, matches) ==
  LET buffer == R.stderrBuffer \/ matches
  IN [R EXCEPT !.stderrBuffer = buffer, !.chunks = @ + 1,
               !.authDetected = @ \/ buffer,
               !.aborts = IF buffer THEN @ + 1 ELSE @]

\* authWaitingDetector on one stderr chunk; matches: the chunk makes the
\* accumulated buffer match isWaitingForAuthentication (it then goes on matching).
detect(R, matches) ==
  LET buffer == R.stderrBuffer \/ matches
  IN IF buffer /\ ~R.authDetected
     THEN [R EXCEPT !.stderrBuffer = buffer, !.chunks = @ + 1,
                    !.authDetected = TRUE, !.aborts = @ + 1]
     ELSE [R EXCEPT !.stderrBuffer = buffer, !.chunks = @ + 1]

authWaitingDetector ==
  /\ runner.phase = "monitoring"
  /\ runner.chunks < MaxChunks
  /\ \E matches \in BOOLEAN : runner' = detect(runner, matches)
  /\ UNCHANGED <<writers, disk, mem, threw, pc, out, iters, sandbox, now, restarts>>

\* await launch(...) resolves.
launchResolved ==
  /\ runner.phase = "monitoring"
  /\ \E result \in LaunchResults :
       runner' = [runner EXCEPT !.phase = "exited", !.result = result]
  /\ UNCHANGED <<writers, disk, mem, threw, pc, out, iters, sandbox, now, restarts>>

\* tryRecoverFromAgentError: what the hook did ("none": the agent has no hook),
\* and whether a recovered output comes back.
RecoveryOutcomes(R) ==
  IF R.hook THEN {"output", "nothing", "raises"} ELSE {"none"}

tryRecoverFromAgentError(outcome) == outcome = "output"

\* Faulty classification: credit-exhaustion text is looked for before the timeout.
classifyCreditFirst(R) ==
  IF R.result.credit THEN parseAgentError(R.result.credit)
  ELSE IF R.result.timedOut THEN "TimeoutError"
  ELSE IF R.result.isCanceled THEN "AuthenticationError"
  ELSE parseAgentError(R.result.credit)

\* The error of a failed launch that was not recovered.
classify(R) ==
  IF R.result.timedOut THEN "TimeoutError"
  ELSE IF R.result.isCanceled THEN "AuthenticationError"
  ELSE parseAgentError(R.result.credit)

\* Faulty decision: the recovery hook is not consulted.
decideNoRecovery(R, outcome) ==
  IF R.authDetected
  THEN [R EXCEPT !.agentError = "AuthenticationError"]
  ELSE IF R.result.exitCode = 0
  THEN [R EXCEPT !.outputs = [raw_output |-> "stdout"]]
  ELSE [R EXCEPT !.agentError = classify(R),
                 !.errorTimeout = IF classify(R) = "TimeoutError"
                                  THEN R.timeout * 1000 ELSE 0]

\* Faulty decision: exit code 0 is a success whatever the detector saw.
decideExitCodeFirst(R, outcome) ==
  IF R.result.exitCode = 0
  THEN [R EXCEPT !.outputs = [raw_output |-> "stdout"]]
  ELSE IF R.authDetected
  THEN [R EXCEPT !.agentError = "AuthenticationError"]
  ELSE LET R1 == [R EXCEPT !.recovery = outcome]
       IN IF tryRecoverFromAgentError(outcome)
          THEN [R1 EXCEPT !.outputs = [raw_output |-> "recovered"]]
          ELSE [R1 EXCEPT !.agentError = classify(R),
                          !.errorTimeout = IF classify(R) = "TimeoutError"
                                           THEN R.timeout * 1000 ELSE 0]

\* Runner.run from the resolved launch to rawOutput / agentError: authentication
\* detected, exit code 0, or a recovery attempt and then the classification.
decide(R, outcome) ==
  IF R.authDetected
  THEN [R EXCEPT !.agentError = "AuthenticationError"]
  ELSE IF R.result.exitCode = 0
  THEN [R EXCEPT !.outputs = [raw_output |-> "stdout"]]
  ELSE LET R1 == [R EXCEPT !.recovery = outcome]
       IN IF tryRecoverFromAgentError(outcome)
          THEN [R1 EXCEPT !.outputs = [raw_output |-> "recovered"]]
          ELSE [R1 EXCEPT !.agentError = classify(R),
                          !.errorTimeout = IF classify(R) = "TimeoutError"
                                           THEN R.timeout * 1000 ELSE 0]

toolUsesJsonFormat(tool) == tool \in {"claude", "gemini"}

\* parseStepOutputs' responseContent: for a JSON tool whose output parses, the
\* result member of the parsed value (undefined when there is none, and for a
\* scalar); the raw output when the tool prints text or the parse raises.
responseContent(tool, raw) ==
  IF toolUsesJsonFormat(tool)
  THEN CASE raw.text.kind = "object" -> raw.result
         [] raw.text.kind = "scalar" -> NoText
         [] OTHER -> raw.text
  ELSE raw.text

\* extractStringOutputs: the value stored for the declared string output.
stringValue(content) ==
  IF content.kind \in {"object", "fenced"}
  THEN IF content.has THEN "value" ELSE NotFound
  ELSE CouldNotExtract

\* extractFileOutputs: the entries stored for the declared file output.
fileEntries(file) ==
  CASE file = "missingFilename" -> [plan |-> MissingFilename]
    [] file = "exists" -> [plan |-> "plan.md", plan_content |-> "content"]
    [] file = "absent" -> [plan |-> FileNotCreated]
    [] OTHER -> [plan |-> CouldNotReadFile]

\* Runner.parseStepOutputs: string outputs, then file outputs; an exception of
\* the extraction (responseContent is not a string) is caught and reported.
parseStepOutputs(R, raw, file, outputs) ==
  LET content == responseContent(R.tool, raw)
  IN IF R.strings /\ content = NoText
     THEN [success |-> FALSE, outputs |-> outputs]
     ELSE LET o1 == IF R.strings
                    THEN (R.outputName :> stringValue(content)) @@ outputs
                    ELSE outputs
          IN [success |-> TRUE,
              outputs |-> IF R.files THEN fileEntries(file) @@ o1 ELSE o1]

\* The rest of Runner.run: a raw output is stored with the prompt and parsed (a
\* failed parse is thrown); an error is stored under error, error_code and
\* error_retryable; the result is a success when no error was stored.
finalize(R, raw, file) ==
  IF "raw_output" \in DOMAIN R.outputs
  THEN LET p == parseStepOutputs(R, raw, file,
                                 R.outputs @@ [input_prompt |-> "prompt"])
       IN IF p.success
          THEN [R EXCEPT !.phase = "returned", !.outputs = p.outputs,
                         !.raw = raw, !.file = file,
                         !.success = "error" \notin DOMAIN p.outputs]
          ELSE [R EXCEPT !.phase = "threw", !.outputs = p.outputs,
                         !.raw = raw, !.file = file]
  ELSE [R EXCEPT !.phase = "returned",
                 !.outputs = [error |-> R.agentError,
                              error_code |-> ErrorCode(R.agentError),
                              error_retryable |->
                                IF isRetryable(R.agentError) THEN "true" ELSE "false"],
                 !.success = FALSE,
                 !.errorCode = IF R.agentError = "CreditExhaustedError"
                               THEN ErrorCode(R.agentError) ELSE UndefStr]

runnerFinish ==
  /\ runner.phase = "exited"
  /\ \E outcome \in RecoveryOutcomes(runner), raw \in RawOutputs, file \in FileStates :
       /\ runner' = finalize(decide(runner, outcome), raw, file)
       /\ IF /\ runner.statusManager /\ runner'.phase = "returned"
             /\ "raw_output" \in DOMAIN runner'.outputs
          THEN WriteStatus(1, "running", UndefStr)
          ELSE UNCHANGED iters
  /\ UNCHANGED <<writers, disk, mem, threw, pc, out, sandbox, now, restarts>>

\* ------------------------------------------------ ACPRunner.runStep (session)
\* sendPrompt: a stop reason and a response, or an exception whose message may
\* carry a credit-exhaustion phrase.
SendOutcomes == {"ok", "raises", "raisesCredit"}

\* The step's _<id>_outputs.json: absent, unparsable, an object with or
\* without the declared output.
OutputsFiles == {"absent", "bad", "with", "without"}

\* extractJsonFromContent on a text: no JSON, an object with or without the
\* declared output.
EmbeddedJson == {"none", "with", "without"}

\* ACPRunner.extractStringOutputs: the JSON object used, in the order outputs
\* file, content of the file output, agent response.
acpJsonData(R, file, outputsFile, fileJson, responseJson) ==
  IF outputsFile \in {"with", "without"} THEN outputsFile
  ELSE IF R.files /\ file = "exists" /\ fileJson # "none" THEN fileJson
  ELSE responseJson

\* ACPRunner.parseStepOutputs: file outputs, then string outputs; the value of
\* the string output comes from the JSON object, else from a header or
\* key-value pattern in the content of the file output (building the pattern
\* raises for a name that is no regular expression), else it is the sentinel.
acpParseStepOutputs(R, file, outputsFile, fileJson, responseJson, pattern, outputs) ==
  LET o1 == IF R.files THEN fileEntries(file) @@ outputs ELSE outputs
      json == acpJsonData(R, file, outputsFile, fileJson, responseJson)
      hasContent == "plan_content" \in DOMAIN o1
  IN IF ~R.strings THEN [success |-> TRUE, outputs |-> o1]
     ELSE IF json = "with"
     THEN [success |-> TRUE, outputs |-> [summary |-> "value"] @@ o1]
     ELSE IF hasContent /\ R.badName
     THEN [success |-> FALSE, outputs |-> o1]
     ELSE IF hasContent /\ pattern
     THEN [success |-> TRUE, outputs |-> [summary |-> "match"] @@ o1]
     ELSE [success |-> TRUE, outputs |-> [summary |-> NotFound] @@ o1]

\* Faulty catch block: the code of every classified error is reported.
acpFailedClassified(R, outputs, credit) ==
  [R EXCEPT !.phase = "returned", !.success = FALSE,
            !.outputs = [error |-> "message"] @@ outputs,
            !.result.credit = credit,
            !.agentError = parseAgentError(credit),
            !.errorCode = ErrorCode(parseAgentError(credit))]

\* The catch block of runStep: the message is stored under error, and the
\* error code is set when parseAgentError finds credit exhaustion in it.
acpFailed(R, outputs, credit) ==
  [R EXCEPT !.phase = "returned", !.success = FALSE,
            !.outputs = [error |-> "message"] @@ outputs,
            !.result.credit = credit,
            !.agentError = parseAgentError(credit),
            !.errorCode = IF parseAgentError(credit) = "CreditExhaustedError"
                          THEN ErrorCode("CreditExhaustedError") ELSE UndefStr]

\* getACPSpawnCommand: the tools that have an ACP command; any other tool throws.
getACPSpawnCommand(tool) == tool \in {"claude", "copilot", "opencode"}

\* What spawn gives: a process with its streams, or an object without stdin or
\* stdout (the spawn failed for lack of descriptors and no process runs).
SpawnOutcomes == {"ok", "noStreams"}

\* Faulty close: the process is forgotten without being signalled and the
\* handshake flag is kept.
closeForgets(A) ==
  [A EXCEPT !.agentProcess = "null", !.connection = FALSE, !.sessionId = 0,
            !.isSessionCreated = FALSE]

\* ACPRunner.close: the agent process, if any, is sent SIGTERM and forgotten;
\* connection, session id and both flags are reset (the client is kept).
close(A) ==
  [A EXCEPT !.alive = IF A.agentProcess = "alive" THEN @ - 1 ELSE @,
            !.agentProcess = "null", !.connection = FALSE, !.sessionId = 0,
            !.isConnectionInitialized = FALSE, !.isSessionCreated = FALSE]

\* ACPRunner.initializeConnection: nothing when already initialized; the spawn
\* command, the spawn, the stream check, client and connection, the handshake,
\* whose failure closes the runner before the error is raised.
initializeConnection(A, tool, spawn, handshake) ==
  IF A.isConnectionInitialized THEN [A EXCEPT !.raised = FALSE]
  ELSE IF ~getACPSpawnCommand(tool) THEN [A EXCEPT !.raised = TRUE]
  ELSE IF spawn = "noStreams"
  THEN [A EXCEPT !.agentProcess = "failed", !.spawns = @ + 1, !.raised = TRUE]
  ELSE LET spawned == [A EXCEPT !.agentProcess = "alive", !.alive = @ + 1,
                                !.spawns = @ + 1, !.client = TRUE,
                                !.connection = TRUE, !.handshakes = @ + 1]
       IN IF handshake
          THEN [spawned EXCEPT !.isConnectionInitialized = TRUE,
                               !.raised = FALSE]
          ELSE [close(spawned) EXCEPT !.raised = TRUE]

\* Faulty createSession: an open session is replaced by a new one.
createSessionReplaces(A, ok) ==
  IF ~A.isConnectionInitialized \/ ~A.connection THEN [A EXCEPT !.raised = TRUE]
  ELSE IF ok
  THEN [A EXCEPT !.sessionId = A.sessions + 1, !.sessions = @ + 1,
                 !.isSessionCreated = TRUE, !.raised = FALSE]
  ELSE [A EXCEPT !.raised = TRUE]

\* ACPRunner.createSession: raises without an initialized connection, raises
\* when a session is open, and otherwise asks the agent for a new session.
createSession(A, ok) ==
  IF ~A.isConnectionInitialized \/ ~A.connection THEN [A EXCEPT !.raised = TRUE]
  ELSE IF A.isSessionCreated THEN [A EXCEPT !.raised = TRUE]
  ELSE IF ok
  THEN [A EXCEPT !.sessionId = A.sessions + 1, !.sessions = @ + 1,
                 !.isSessionCreated = TRUE, !.raised = FALSE]
  ELSE [A EXCEPT !.raised = TRUE]

\* Faulty closeSession: the whole runner is closed.
closeSessionClosesAll(A) == close(A)

\* ACPRunner.closeSession: with a session id, the id and the flag are cleared.
closeSession(A) ==
  IF A.sessionId # 0
  THEN [A EXCEPT !.sessionId = 0, !.isSessionCreated = FALSE]
  ELSE A

\* ACPClient.startCapturing: the client captures from now on.
startCapturing(A) == [A EXCEPT !.capturing = TRUE]

\* ACPClient.stopCapturing: the client stops capturing and hands over what it
\* holds.
stopCapturing(A) == [A EXCEPT !.capturing = FALSE, !.captured = {}]

\* The client receives agent text for the prompt last sent: kept while
\* capturing, dropped otherwise.
sessionUpdate(A) ==
  IF A.capturing THEN [A EXCEPT !.captured = @ \cup {A.prompts}] ELSE A

\* ACPRunner.sendPrompt up to the awaited prompt: the three guards raise,
\* otherwise capturing starts and the prompt is sent.
sendPromptStart(A) ==
  IF ~A.isConnectionInitialized \/ ~A.connection THEN [A EXCEPT !.raised = TRUE]
  ELSE IF ~A.isSessionCreated \/ A.sessionId = 0 THEN [A EXCEPT !.raised = TRUE]
  ELSE IF ~A.client THEN [A EXCEPT !.raised = TRUE]
  ELSE [startCapturing(A) EXCEPT !.pending = TRUE, !.prompts = @ + 1,
                                 !.raised = FALSE]

\* Faulty sendPrompt: the catch block does not stop capturing.
sendPromptEndKeepsCapturing(A, ok) ==
  IF ok
  THEN [stopCapturing(A) EXCEPT !.response = A.captured, !.pending = FALSE,
                                !.raised = FALSE]
  ELSE [A EXCEPT !.response = {}, !.pending = FALSE, !.raised = TRUE]

\* ACPRunner.sendPrompt from the awaited prompt on: the response is what
\* stopCapturing hands over; the catch block stops capturing and raises.
sendPromptEnd(A, ok) ==
  IF ok
  THEN [stopCapturing(A) EXCEPT !.response = A.captured, !.pending = FALSE,
                                !.raised = FALSE]
  ELSE [stopCapturing(A) EXCEPT !.response = {}, !.pending = FALSE,
                                !.raised = TRUE]

\* The guards of runStep, raised before its try block.
runStepGuards(A) ==
  /\ A.isConnectionInitialized /\ A.connection
  /\ A.isSessionCreated /\ A.sessionId # 0

\* The try and catch blocks of runStep: the prompt is sent, raw_output and
\* input_prompt are stored and the outputs parsed; every exception ends in the
\* catch block.
runStepTry(R, send, file, outputsFile, fileJson, responseJson, pattern) ==
  LET sent == [raw_output |-> "Stop reason", input_prompt |-> "prompt"]
      p == acpParseStepOutputs(R, file, outputsFile, fileJson,
                               responseJson, pattern, sent)
      A == sendPromptEnd(sessionUpdate(sendPromptStart(R.acp)), send = "ok")
      S == [R EXCEPT !.acp = [A EXCEPT !.raised = FALSE, !.last = "runStep"]]
  IN IF send # "ok"
     THEN acpFailed(S, NoOutputs, send = "raisesCredit")
     ELSE IF ~p.success
     THEN acpFailed([S EXCEPT !.file = file], p.outputs, FALSE)
     ELSE [S EXCEPT !.phase = "returned", !.success = TRUE,
                    !.file = file, !.outputs = p.outputs,
                    !.result.credit = FALSE, !.agentError = "none",
                    !.errorCode = UndefStr]

\* ACPRunner.runStep: the two guards raise; otherwise the status is reported
\* and the step runs.
acpRunStep ==
  /\ runner.phase \in {"session", "returned"}
  /\ ~runner.acp.pending
  /\ runner.acp.prompts < MaxPrompts
  /\ IF ~runStepGuards(runner.acp)
     THEN /\ runner' = [runner EXCEPT !.acp.raised = TRUE,
                                      !.acp.last = "runStep"]
          /\ UNCHANGED iters
     ELSE /\ \E send \in SendOutcomes, file \in FileStates,
                outputsFile \in OutputsFiles, fileJson \in EmbeddedJson,
                responseJson \in EmbeddedJson, pattern \in BOOLEAN :
               runner' = runStepTry(runner, send, file, outputsFile, fileJson,
                                    responseJson, pattern)
          /\ IF runner.statusManager
             THEN WriteStatus(1, "running", UndefStr)
             ELSE UNCHANGED iters
  /\ UNCHANGED <<writers, disk, mem, threw, pc, out, sandbox, now, restarts>>

\* A caller of the runner calls initializeConnection.
callInitializeConnection ==
  /\ runner.phase \in {"session", "returned"}
  /\ ~runner.acp.pending
  /\ runner.acp.spawns < MaxSpawns
  /\ \E spawn \in SpawnOutcomes, handshake \in BOOLEAN :
       runner' = [runner EXCEPT
                    !.acp = [initializeConnection(runner.acp, runner.tool,
                                                  spawn, handshake)
                               EXCEPT !.last = "initializeConnection"]]
  /\ UNCHANGED <<writers, disk, mem, threw, pc, out, iters, sandbox, now, restarts>>

\* A caller of the runner calls createSession.
callCreateSession ==
  /\ runner.phase \in {"session", "returned"}
  /\ ~runner.acp.pending
  /\ runner.acp.sessions < MaxSessions
  /\ \E ok \in BOOLEAN :
       runner' = [runner EXCEPT !.acp = [createSession(runner.acp, ok)
                                           EXCEPT !.last = "createSession"]]
  /\ UNCHANGED <<writers, disk, mem, threw, pc, out, iters, sandbox, now, restarts>>

\* A caller of the runner calls sendPrompt, which runs up to its await.
callSendPrompt ==
  /\ runner.phase \in {"session", "returned"}
  /\ ~runner.acp.pending
  /\ runner.acp.prompts < MaxPrompts
  /\ runner' = [runner EXCEPT !.acp = [sendPromptStart(runner.acp)
                                         EXCEPT !.last = "sendPrompt"]]
  /\ UNCHANGED <<writers, disk, mem, threw, pc, out, iters, sandbox, now, restarts>>

\* The agent sends text for the prompt it was last given.
agentSpeaks ==
  /\ runner.phase \in {"session", "returned"}
  /\ runner.acp.agentProcess = "alive"
  /\ runner.acp.prompts > 0
  /\ runner' = [runner EXCEPT !.acp = sessionUpdate(runner.acp)]
  /\ UNCHANGED <<writers, disk, mem, threw, pc, out, iters, sandbox, now, restarts>>

\* The awaited prompt resolves or rejects and sendPrompt finishes.
promptSettles ==
  /\ runner.acp.pending
  /\ \E ok \in BOOLEAN :
       runner' = [runner EXCEPT !.acp = sendPromptEnd(runner.acp, ok)]
  /\ UNCHANGED <<writers, disk, mem, threw, pc, out, iters, sandbox, now, restarts>>

\* A caller of the runner calls closeSession.
callCloseSession ==
  /\ runner.phase \in {"session", "returned"}
  /\ ~runner.acp.pending
  /\ runner' = [runner EXCEPT !.acp = [closeSession(runner.acp)
                                         EXCEPT !.raised = FALSE,
                                                !.last = "closeSession"]]
  /\ UNCHANGED <<writers, disk, mem, threw, pc, out, iters, sandbox, now, restarts>>

\* A caller of the runner calls close.
callClose ==
  /\ runner.phase \in {"session", "returned"}
  /\ ~runner.acp.pending
  /\ runner' = [runner EXCEPT !.acp = [close(runner.acp)
                                         EXCEPT !.raised = FALSE,
                                                !.last = "close"]]
  /\ UNCHANGED <<writers, disk, mem, threw, pc, out, iters, sandbox, now, restarts>>

\* runCommand in ACP mode, the outer try: initializeConnection; an exception
\* goes to the outer finally.
runAcpInitialize ==
  /\ sandbox.phase = "acpInit"
  /\ \E spawn \in SpawnOutcomes, handshake \in BOOLEAN :
       LET A == [initializeConnection(runner.acp, runner.tool, spawn, handshake)
                   EXCEPT !.last = "initializeConnection"]
       IN /\ runner' = [runner EXCEPT !.acp = A]
          /\ sandbox' = [sandbox EXCEPT
                           !.phase = IF A.raised THEN "acpClose" ELSE "acpSession",
                           !.run.thrown = A.raised]
  /\ UNCHANGED <<writers, disk, mem, threw, pc, out, iters, now, restarts>>

\* The head of the step loop and the inner try: runSteps is counted and a
\* session created for the step; an exception goes to the inner finally.
runAcpCreateSession ==
  /\ sandbox.phase = "acpSession"
  /\ sandbox.run.stepIndex < sandbox.run.totalSteps
  /\ \E ok \in BOOLEAN :
       LET A == [createSession(runner.acp, ok) EXCEPT !.last = "createSession"]
       IN /\ runner' = [runner EXCEPT !.acp = A]
          /\ sandbox' = [sandbox EXCEPT
                           !.phase = IF A.raised THEN "acpCloseSession"
                                     ELSE "acpStep",
                           !.run.runSteps = @ + 1,
                           !.run.thrown = A.raised]
  /\ UNCHANGED <<writers, disk, mem, threw, pc, out, iters, now, restarts>>

\* The inner try after createSession: the outputs of the earlier steps are
\* handed to the runner, the step is run and its result handled: outputs kept
\* on success, break on a failure without continueOnError, an empty map on a
\* failure with it.
runAcpStep ==
  /\ sandbox.phase = "acpStep"
  /\ runStepGuards(runner.acp)
  /\ \E send \in SendOutcomes, file \in FileStates, outputsFile \in OutputsFiles,
        fileJson \in EmbeddedJson, responseJson \in EmbeddedJson,
        pattern \in BOOLEAN :
       LET R == runStepTry(runner, send, file, outputsFile, fileJson,
                           responseJson, pattern)
           result == [success |-> R.success, errorCode |-> R.errorCode]
           r == sandbox.run
           r1 == [r EXCEPT !.stepResults = Append(@, result)]
       IN /\ runner' = R
          /\ sandbox' =
               [sandbox EXCEPT
                  !.phase = "acpCloseSession",
                  !.run = IF result.success
                          THEN [r1 EXCEPT !.stepsOutput = @ + 1,
                                          !.visible = @ \cup {r.stepIndex + 1}]
                          ELSE IF ~r.continueOnError
                          THEN [r1 EXCEPT !.lastFailureCause = result.errorCode,
                                          !.broken = TRUE]
                          ELSE [r1 EXCEPT !.stepsOutput = @ + 1]]
  /\ IF runner.statusManager
     THEN WriteStatus(sandbox.iter, "running", UndefStr)
     ELSE UNCHANGED iters
  /\ UNCHANGED <<writers, disk, mem, threw, pc, out, now, restarts>>

\* Faulty loop: a break does not leave it.
runAcpCloseSessionNoBreak ==
  /\ sandbox.phase = "acpCloseSession"
  /\ runner' = [runner EXCEPT !.acp = [closeSession(runner.acp)
                                         EXCEPT !.raised = FALSE,
                                                !.last = "closeSession"]]
  /\ LET r == sandbox.run
     IN sandbox' =
          IF r.thrown THEN [sandbox EXCEPT !.phase = "acpClose"]
          ELSE [sandbox EXCEPT
                  !.phase = IF r.stepIndex + 1 < r.totalSteps
                            THEN "acpSession" ELSE "acpClose",
                  !.run.stepIndex = @ + 1]
  /\ UNCHANGED <<writers, disk, mem, threw, pc, out, iters, now, restarts>>

\* The inner finally: closeSession; then the exception or the break leaves the
\* loop, or the loop goes on with the next step.
runAcpCloseSession ==
  /\ sandbox.phase = "acpCloseSession"
  /\ runner' = [runner EXCEPT !.acp = [closeSession(runner.acp)
                                         EXCEPT !.raised = FALSE,
                                                !.last = "closeSession"]]
  /\ LET r == sandbox.run
     IN sandbox' =
          IF r.thrown \/ r.broken THEN [sandbox EXCEPT !.phase = "acpClose"]
          ELSE [sandbox EXCEPT
                  !.phase = IF r.stepIndex + 1 < r.totalSteps
                            THEN "acpSession" ELSE "acpClose",
                  !.run.stepIndex = @ + 1]
  /\ UNCHANGED <<writers, disk, mem, threw, pc, out, iters, now, restarts>>

\* Faulty runCommand: the outer try has no finally block.
runAcpCloseSkipped ==
  /\ sandbox.phase = "acpClose"
  /\ sandbox' = [sandbox EXCEPT
                   !.phase = IF sandbox.run.thrown THEN "exit" ELSE "summary"]
  /\ UNCHANGED <<writers, runner, disk, mem, threw, pc, out, iters, now, restarts>>

\* The outer finally: close; an exception then reaches runCommand's catch
\* block, otherwise the summary follows.
runAcpClose ==
  /\ sandbox.phase = "acpClose"
  /\ runner' = [runner EXCEPT !.acp = [close(runner.acp)
                                         EXCEPT !.raised = FALSE,
                                                !.last = "close"]]
  /\ sandbox' = [sandbox EXCEPT
                   !.phase = IF sandbox.run.thrown THEN "exit" ELSE "summary"]
  /\ UNCHANGED <<writers, disk, mem, threw, pc, out, iters, now, restarts>>

\* ------------------------------------------------ the prompt of a step
\* The placeholder tokens a template is made of, beside plain text: the one
\* with a single segment has an invalid shape.
Placeholders ==
  {"{{inputs.a}}", "{{inputs.b}}", "{{steps.s1.outputs.o}}",
   "{{steps.s1.outputs.f}}", "{{steps.s1.outputs.raw_output}}", "{{inputs}}"}

\* placeholder.split('.') of the text between the braces of a token.
split(token) ==
  CASE token = "{{inputs.a}}" -> <<"inputs", "a">>
    [] token = "{{inputs.b}}" -> <<"inputs", "b">>
    [] token = "{{steps.s1.outputs.o}}" -> <<"steps", "s1", "outputs", "o">>
    [] token = "{{steps.s1.outputs.f}}" -> <<"steps", "s1", "outputs", "f">>
    [] token = "{{steps.s1.outputs.raw_output}}"
         -> <<"steps", "s1", "outputs", "raw_output">>
    [] OTHER -> <<"inputs">>

\* prompt.matchAll(placeholderRegex): the placeholder tokens of a text, in order.
matchAll(text) == SelectSeq(text, LAMBDA t : t \in Placeholders)

\* The values an input can have: plain text, the empty string, text holding
\* the replacement pattern $&, text holding the dollar pattern $$, and text
\* that reads like a placeholder.
InputValues ==
  {Str(<<"v">>), Str(<< >>), Str(<<"$&">>), Str(<<"$$">>),
   Str(<<"{{inputs.b}}">>)}

\* this.inputs.get(name).
inputsGet(P, name) == IF name = "a" THEN P.a ELSE P.b

\* The outputs recorded for step s1: the declared string output o, the
\* declared file output f with the content captured for it when the file
\* could be read, and the entries every step records.
stepOutputsHas(P, name) ==
  /\ P.s1 = "full"
  /\ \/ name \in {"o", "f", "raw_output", "input_prompt"}
     \/ name = "f_content" /\ P.file = "readable"

stepOutputsGet(P, name) ==
  IF ~stepOutputsHas(P, name) THEN NoValue
  ELSE CASE name = "o" -> Str(<<"val">>)
         [] name = "f" -> Str(<<"path">>)
         [] name = "f_content" -> Str(<<"content">>)
         [] OTHER -> Str(<<"raw">>)

\* The type of an output in the definition of step s1; "none": not declared.
outputDef(name) ==
  CASE name = "o" -> "string" [] name = "f" -> "file" [] OTHER -> "none"

\* Runner.loadValueByType: the content of a file output; its path, with a
\* warning, when the file is missing or cannot be read.
loadValueByType(P, value, type) ==
  IF type = "file"
  THEN CASE P.file = "readable" -> [value |-> Str(<<"content">>), warnings |-> << >>]
         [] P.file = "unreadable"
              -> [value |-> value, warnings |-> <<"Could not read file">>]
         [] OTHER -> [value |-> value, warnings |-> <<"File does not exist">>]
  ELSE [value |-> value, warnings |-> << >>]

\* One turn of the loop of Runner.prompt up to the replacement: the
\* replacement value of a token, undefined when unresolved, and the warnings.
resolveRun(P, token) ==
  LET parts == split(token)
  IN IF parts[1] = "inputs" /\ Len(parts) = 2
     THEN IF inputsGet(P, parts[2]).def
          THEN [value |-> inputsGet(P, parts[2]), warnings |-> << >>]
          ELSE [value |-> NoValue, warnings |-> <<"Input not provided">>]
     ELSE IF parts[1] = "steps" /\ Len(parts) = 4 /\ parts[3] = "outputs"
     THEN IF P.s1 # "none" /\ stepOutputsHas(P, parts[4])
          THEN IF outputDef(parts[4]) = "none"
               THEN [value |-> NoValue,
                     warnings |-> <<"The output definition is missing">>]
               ELSE loadValueByType(P, stepOutputsGet(P, parts[4]),
                                    outputDef(parts[4]))
          ELSE IF P.s1 = "none"
          THEN [value |-> NoValue,
                warnings |-> <<"Step has not been executed yet">>]
          ELSE [value |-> NoValue, warnings |-> <<"Output not found in step">>]
     ELSE [value |-> NoValue, warnings |-> <<"Invalid placeholder format">>]

\* One turn of the loop of buildACPPrompt up to the replacement.
resolveAcp(P, token) ==
  LET parts == split(token)
  IN IF parts[1] = "inputs" /\ Len(parts) = 2
     THEN IF inputsGet(P, parts[2]).def
          THEN [value |-> inputsGet(P, parts[2]), warnings |-> << >>]
          ELSE [value |-> NoValue, warnings |-> <<"Input not provided">>]
     ELSE IF parts[1] = "steps" /\ Len(parts) = 4 /\ parts[3] = "outputs"
     THEN IF P.s1 # "none" /\ stepOutputsHas(P, parts[4])
          THEN IF outputDef(parts[4]) = "file"
               THEN IF stepOutputsHas(P, "f_content")
                    THEN [value |-> stepOutputsGet(P, "f_content"),
                          warnings |-> << >>]
                    ELSE [value |-> NoValue,
                          warnings |-> <<"File content not found in step">>]
               ELSE [value |-> stepOutputsGet(P, parts[4]), warnings |-> << >>]
          ELSE IF P.s1 = "none"
          THEN [value |-> NoValue,
                warnings |-> <<"Step has not been executed yet">>]
          ELSE [value |-> NoValue, warnings |-> <<"Output not found in step">>]
     ELSE [value |-> NoValue, warnings |-> <<"Invalid placeholder format">>]

resolve(P, token) ==
  IF P.kind = "acp" THEN resolveAcp(P, token) ELSE resolveRun(P, token)

\* The position of the first occurrence of a token in a text, 0 when absent.
indexOf(text, token) ==
  IF \E i \in 1..Len(text) : text[i] = token
  THEN CHOOSE i \in 1..Len(text) :
         /\ text[i] = token
         /\ \A j \in 1..(i - 1) : text[j] # token
  ELSE 0

\* The replacement text of String.prototype.replace for a string replacement:
\* $$ stands for a dollar sign and $& for the matched text.
RECURSIVE GetSubstitution(_, _)
GetSubstitution(matched, replacement) ==
  IF replacement = << >> THEN << >>
  ELSE (CASE Head(replacement) = "$$" -> <<"$">>
          [] Head(replacement) = "$&" -> <<matched>>
          [] OTHER -> <<Head(replacement)>>)
       \o GetSubstitution(matched, Tail(replacement))

\* text.replace(token, replacement) with a string pattern: the first
\* occurrence of the token in the text, if any, is replaced.
replace(text, token, replacement) ==
  LET i == indexOf(text, token)
  IN IF i = 0 THEN text
     ELSE SubSeq(text, 1, i - 1) \o GetSubstitution(token, replacement)
            \o SubSeq(text, i + 1, Len(text))

\* The loop over the matches: each resolved token is replaced in the prompt
\* built so far, and the warnings are collected.
RECURSIVE replaceMatches(_, _, _, _)
replaceMatches(P, matches, text, warnings) ==
  IF matches = << >> THEN [final |-> text, warnings |-> warnings]
  ELSE LET r == resolve(P, Head(matches))
       IN replaceMatches(P, Tail(matches),
                         IF r.value.def
                         THEN replace(text, Head(matches), r.value.text)
                         ELSE text,
                         warnings \o r.warnings)

\* generateOutputInstructions: nothing for a step without outputs.
generateOutputInstructions(R) ==
  IF R.strings \/ R.files THEN <<"## OUTPUT REQUIREMENTS">> ELSE << >>

\* Runner.prompt and ACPRunner.buildACPPrompt.
buildPrompt ==
  /\ runner.phase = "prompt"
  /\ ~runner.prompt.built
  /\ LET P == runner.prompt
         r == replaceMatches(P, matchAll(P.template), P.template, << >>)
     IN runner' = [runner EXCEPT
                     !.prompt.final = r.final \o generateOutputInstructions(runner),
                     !.prompt.warnings = r.warnings,
                     !.prompt.built = TRUE]
  /\ UNCHANGED <<writers, disk, mem, threw, pc, out, iters, sandbox, now, restarts>>

\* Time passes.
Tick ==
  /\ now < MaxTime
  /\ now' = now + 1
  /\ UNCHANGED <<writers, runner, disk, mem, threw, pc, out, iters, sandbox, restarts>>

\* ------------------------------------------------------------ specification
Init ==
  /\ disk = NoFile
  /\ mem = NoData
  /\ threw = FALSE
  /\ pc = "idle"
  /\ out = Out(FALSE)
  /\ iters = [i \in Iterations |-> NoIter]
  /\ sandbox = NoSandbox
  /\ now = 1
  /\ restarts = 0
  /\ writers = NoWriters
  /\ runner = NoRunner

Next ==
  \/ taskCommand \/ taskSandbox
  \/ restartCommand \/ restartSandbox
  \/ stopCommand
  \/ iterateCommand \/ iterateSandbox
  \/ mergeCommand
  \/ pushCommand
  \/ listCommand
  \/ deleteCommand
  \/ agentInit \/ agentStep \/ agentEnd

\* Every command and the agent, within one reading of the wall clock.
Spec == Init /\ [][Next]_vars

\* The life of one task from creation to merge and push, with the wall clock
\* running: the commands that stamp and read completion timestamps.
NextClock ==
  \/ taskCommand \/ taskSandbox
  \/ agentInit \/ agentStep \/ agentEnd
  \/ listCommand
  \/ mergeCommand
  \/ pushCommand
  \/ Tick

SpecClock == Init /\ [][NextClock]_vars

NextRun ==
  \/ taskCommand \/ taskSandbox
  \/ runInit \/ runStep \/ runSummary \/ runExit
  \/ listCommand
  \/ restartCommand \/ restartSandbox

\* One task whose workflow runs are followed step by step.
SpecRun == Init /\ [][NextRun]_vars

\* ------------------------------------------------ one step of a workflow
\* A runner constructed for a step, inside an iteration whose status document
\* has been created.
InitStep ==
  /\ disk = NoFile
  /\ mem = NoData
  /\ threw = FALSE
  /\ pc = "idle"
  /\ out = Out(FALSE)
  /\ iters = [i \in Iterations |-> IF i = 1 THEN NewIter ELSE NoIter]
  /\ sandbox = NoSandbox
  /\ now = 1
  /\ restarts = 0
  /\ writers = NoWriters
  /\ \E statusManager \in BOOLEAN, timeout \in {30, 60}, hook \in BOOLEAN,
        tool \in {"gemini", "codex"}, strings \in BOOLEAN, files \in BOOLEAN :
       runner = [NoRunner EXCEPT !.phase = "new",
                                 !.statusManager = statusManager,
                                 !.timeout = timeout, !.hook = hook,
                                 !.tool = tool, !.strings = strings,
                                 !.files = files]

NextStep == runnerLaunch \/ authWaitingDetector \/ launchResolved \/ runnerFinish

\* One step run by the subprocess runner.
SpecStep == InitStep /\ [][NextStep]_vars

\* A runner constructed for a step that declares a string output, under the
\* name summary or under the name error.
InitOutputs ==
  /\ disk = NoFile
  /\ mem = NoData
  /\ threw = FALSE
  /\ pc = "idle"
  /\ out = Out(FALSE)
  /\ iters = [i \in Iterations |-> IF i = 1 THEN NewIter ELSE NoIter]
  /\ sandbox = NoSandbox
  /\ now = 1
  /\ restarts = 0
  /\ writers = NoWriters
  /\ \E hook \in BOOLEAN, tool \in {"gemini", "codex"}, files \in BOOLEAN,
        outputName \in {"summary", "error"} :
       runner = [NoRunner EXCEPT !.phase = "new", !.statusManager = TRUE,
                                 !.timeout = 30, !.hook = hook,
                                 !.tool = tool, !.strings = TRUE,
                                 !.files = files, !.outputName = outputName]

\* One step run by the subprocess runner, whatever its output is called.
SpecOutputs == InitOutputs /\ [][NextStep]_vars

\* An ACP runner with an open session, about to run a step.
InitAcp ==
  /\ disk = NoFile
  /\ mem = NoData
  /\ threw = FALSE
  /\ pc = "idle"
  /\ out = Out(FALSE)
  /\ iters = [i \in Iterations |-> IF i = 1 THEN NewIter ELSE NoIter]
  /\ sandbox = NoSandbox
  /\ now = 1
  /\ restarts = 0
  /\ writers = NoWriters
  /\ \E statusManager \in BOOLEAN, strings \in BOOLEAN, files \in BOOLEAN,
        badName \in BOOLEAN :
       runner = [NoRunner EXCEPT !.phase = "session",
                                 !.statusManager = statusManager,
                                 !.tool = "claude", !.strings = strings,
                                 !.files = files, !.badName = badName,
                                 !.acp = createSession(
                                   initializeConnection(NoAcp, "claude", "ok",
                                                        TRUE), TRUE)]

NextAcp == acpRunStep

\* One step run by the session runner.
SpecAcp == InitAcp /\ [][NextAcp]_vars

\* A newly constructed ACP runner for a workflow whose tool has, or has not, an
\* ACP command; the step declares no outputs.
InitSession ==
  /\ disk = NoFile
  /\ mem = NoData
  /\ threw = FALSE
  /\ pc = "idle"
  /\ out = Out(FALSE)
  /\ iters = [i \in Iterations |-> IF i = 1 THEN NewIter ELSE NoIter]
  /\ sandbox = NoSandbox
  /\ now = 1
  /\ restarts = 0
  /\ writers = NoWriters
  /\ \E tool \in {"claude", "gemini"} :
       runner = [NoRunner EXCEPT !.phase = "session", !.tool = tool]

NextSession ==
  \/ callInitializeConnection
  \/ callCreateSession
  \/ callSendPrompt
  \/ agentSpeaks
  \/ promptSettles
  \/ acpRunStep
  \/ callCloseSession
  \/ callClose

\* The methods of one ACP runner called in any order.
SpecSession == InitSession /\ [][NextSession]_vars

\* runCommand in ACP mode with the workflow loaded and the inputs validated:
\* the workflow's continueOnError and number of steps, and a new ACP runner.
InitAcpRun ==
  /\ disk = NoFile
  /\ mem = NoData
  /\ threw = FALSE
  /\ pc = "idle"
  /\ out = Out(FALSE)
  /\ iters = [i \in Iterations |-> IF i = 1 THEN NewIter ELSE NoIter]
  /\ now = 1
  /\ restarts = 0
  /\ writers = NoWriters
  /\ runner = [NoRunner EXCEPT !.phase = "session", !.tool = "claude",
                               !.statusManager = TRUE]
  /\ \E continueOnError \in BOOLEAN, totalSteps \in 1..MaxSteps :
       sandbox = [iter |-> 1, phase |-> "acpInit",
                  run |-> [NoRun EXCEPT !.continueOnError = continueOnError,
                                        !.totalSteps = totalSteps]]

NextAcpRun ==
  \/ runAcpInitialize
  \/ runAcpCreateSession
  \/ runAcpStep
  \/ runAcpCloseSession
  \/ runAcpClose
  \/ runSummary
  \/ runExit

\* A workflow run in ACP mode; every step of runCommand is eventually taken.
SpecAcpRun == InitAcpRun /\ [][NextAcpRun]_vars /\ WF_vars(NextAcpRun)

\* The prompt templates of 1..MaxTokens pieces.
Templates ==
  UNION {[1..n -> Placeholders \cup {"text"}] : n \in 1..MaxTokens}

\* A runner about to build the prompt of a step: the template, the inputs and
\* what step s1 has left.
InitPrompt ==
  /\ disk = NoFile
  /\ mem = NoData
  /\ threw = FALSE
  /\ pc = "idle"
  /\ out = Out(FALSE)
  /\ iters = [i \in Iterations |-> IF i = 1 THEN NewIter ELSE NoIter]
  /\ sandbox = NoSandbox
  /\ now = 1
  /\ restarts = 0
  /\ writers = NoWriters
  /\ \E kind \in {"run", "acp"}, template \in Templates,
        a \in InputValues \cup {NoValue}, b \in {NoValue, Str(<<"w">>)},
        s1 \in {"none", "empty", "full"},
        file \in {"readable", "unreadable", "missing"}, strings \in BOOLEAN :
       runner = [NoRunner EXCEPT
                   !.phase = "prompt", !.strings = strings,
                   !.tool = IF kind = "acp" THEN "claude" ELSE "gemini",
                   !.prompt = [NoPrompt EXCEPT !.kind = kind,
                                               !.template = template,
                                               !.a = a, !.b = b, !.s1 = s1,
                                               !.file = file]]

NextPrompt == buildPrompt

\* The prompt of one step, built by either runner.
SpecPrompt == InitPrompt /\ [][NextPrompt]_vars

\* ------------------------------------------------ loading stored documents
\* The JSON object holding the members of d that are present.
Members(d) == [k \in {f \in Fields : d[f] # Undef(f)} |-> d[k]]

\* Documents found on disk: written by this version of the program (current
\* version, valid), or by an earlier one (no version or an older one, legacy
\* status spellings, fields missing, empty datetime strings read as 0).
StoredDocs ==
  LET All ==
        {[NoData EXCEPT !.version = v, !.status = s, !.title = t,
                        !.iterations = i, !.startedAt = a, !.completedAt = c,
                        !.restartCount = r, !.worktreePath = w] :
           v \in {UndefStr, "1.1", CURRENT_TASK_DESCRIPTION_SCHEMA_VERSION},
           s \in {UndefStr, "running", "completed", "Merged", "bogus",
                  "NEW", "FAILED"},
           t \in {UndefStr, "Fix bug"},
           i \in {UndefNum, 1, 2},
           a \in {UndefNum, 0, 1},
           c \in {UndefNum, 0, 1},
           r \in {UndefNum, 1},
           w \in {UndefStr, "ws"}}
  IN {d \in All :
        d.version = CURRENT_TASK_DESCRIPTION_SCHEMA_VERSION => SchemaValid(d)}

\* The manager of the command in flight, as held in the state.
Current == [data |-> mem, disk |-> disk, threw |-> threw]

Keep(M) ==
  /\ disk' = M.disk
  /\ mem' = M.data
  /\ threw' = M.threw
  /\ UNCHANGED <<writers, runner, pc, out, iters, sandbox, now, restarts>>

\* TaskDescriptionManager.load(basePath, taskId)
loadStep ==
  /\ disk.exists
  /\ Keep(load(disk))

\* task.save() on the loaded task
saveStep ==
  /\ mem # NoData
  /\ Keep(save(Current))

\* task.updateTitle(title) on the loaded task
updateTitleStep ==
  /\ mem # NoData
  /\ \E title \in {"Fix bug", "Other"} : Keep(updateTitle(Current, title))

InitLoad ==
  /\ \E d \in StoredDocs :
       disk = [exists |-> TRUE, json |-> Members(d), backup |-> NoBackup]
  /\ mem = NoData
  /\ threw = FALSE
  /\ pc = "idle"
  /\ out = Out(FALSE)
  /\ iters = [i \in Iterations |-> NoIter]
  /\ sandbox = NoSandbox
  /\ now = 1
  /\ restarts = 0
  /\ writers = NoWriters
  /\ runner = NoRunner

NextLoad == loadStep \/ saveStep \/ updateTitleStep

\* A stored document is loaded, retitled and saved.
SpecLoad == InitLoad /\ [][NextLoad]_vars

\* ------------------------------------------------ two writers of one document
\* The order of the keys in the text JSON.stringify produces: those create()
\* sets, in its order, and then the keys assigned later.
KeyOrder ==
  <<"title", "status", "startedAt", "lastIterationAt", "iterations",
    "worktreePath", "version", "containerId", "restartCount", "completedAt",
    "lastStatusCheck", "lastRestartAt", "onCompleteHookFiredAt", "failedAt",
    "error">>

\* The text of a document, one line for each member, as the keys of its lines.
Lines(json) == SelectSeq(KeyOrder, LAMBDA k : k \in DOMAIN json)

\* write(fd, text) at offset 0 of a file that holds old: the lines of old
\* beyond the end of text stay in the file.
Overwrite(old, text) ==
  LET tail == {Lines(old)[i] : i \in (Len(Lines(text)) + 1)..Len(Lines(old))}
  IN [k \in DOMAIN text \cup tail |-> IF k \in tail THEN old[k] ELSE text[k]]

\* The mutating calls a process makes on the document it has loaded.
WriterCalls == {"updateTitle", "markFailed", "markInProgress"}

Mutated(data, call) ==
  LET M == Manager(data, disk)
  IN CASE call = "updateTitle" -> updateTitle(M, "Other")
       [] call = "markFailed" -> setStatus(M, "FAILED", UndefNum, "boom")
       [] OTHER -> markInProgress(M)

\* A process makes a mutating call: the data is changed and validated, and
\* writeFileSync opens the file, which truncates it.
writerOpens(p) ==
  /\ writers.procs[p].stage = "loaded"
  /\ \E call \in WriterCalls :
       LET M == Mutated(writers.procs[p].data, call)
       IN IF M.threw
          THEN /\ writers' = [writers EXCEPT !.procs[p].stage = "raised"]
               /\ UNCHANGED disk
          ELSE /\ writers' = [writers EXCEPT !.procs[p].stage = "opened",
                                              !.procs[p].data = M.data]
               /\ disk' = [disk EXCEPT !.exists = TRUE, !.json = NoJson]
  /\ UNCHANGED <<mem, threw, pc, out, iters, sandbox, now, restarts, runner>>

\* writeFileSync writes the text of the document at the start of the file.
writerWrites(p) ==
  /\ writers.procs[p].stage = "opened"
  /\ disk' = [disk EXCEPT
                !.json = Overwrite(disk.json, Serialize(writers.procs[p].data))]
  /\ writers' = [writers EXCEPT !.procs[p].stage = "written", !.last = p]
  /\ UNCHANGED <<mem, threw, pc, out, iters, sandbox, now, restarts, runner>>

\* Two processes have loaded the same document, written by this program.
InitWriters ==
  /\ \E d \in {x \in StoredDocs :
                 x.version = CURRENT_TASK_DESCRIPTION_SCHEMA_VERSION} :
       /\ disk = [exists |-> TRUE, json |-> Members(d), backup |-> NoBackup]
       /\ writers = [procs |-> [p \in {1, 2} |->
                                  [stage |-> "loaded", data |-> load(disk).data]],
                     last |-> 0]
  /\ mem = NoData
  /\ threw = FALSE
  /\ pc = "idle"
  /\ out = Out(FALSE)
  /\ iters = [i \in Iterations |-> NoIter]
  /\ sandbox = NoSandbox
  /\ now = 1
  /\ restarts = 0
  /\ runner = NoRunner

NextWriters == \E p \in {1, 2} : writerOpens(p) \/ writerWrites(p)

\* Two processes change and save the document they both loaded.
SpecWriters == InitWriters /\ [][NextWriters]_vars

\* ------------------------------------------------- progress of a workflow
\* A Runner that counts its steps down instead of up.
calculateProgressRemaining(stepIndex, totalSteps) ==
  IF totalSteps = 0 THEN 0
  ELSE ((totalSteps - stepIndex) * 100) \div totalSteps

\* Runner.calculateProgress: Math.floor((stepIndex / totalSteps) * 100), and 0
\* for a runner that was given no step count.
calculateProgress(stepIndex, totalSteps) ==
  IF totalSteps = 0 THEN 0 ELSE (stepIndex * 100) \div totalSteps

\* ACPRunner.runStep: Math.floor((stepIndex / totalSteps) * 100), computed in
\* place from the step's index in the workflow and the workflow's length.
acpProgress(stepIndex, totalSteps) == (stepIndex * 100) \div totalSteps

\* currentProgress or nextProgress of the step at index stepIndex.
progressOf(P, stepIndex) ==
  IF P.kind = "acp" THEN acpProgress(stepIndex, P.totalSteps)
  ELSE calculateProgress(stepIndex, P.totalSteps)

\* Runner.run, ACPRunner.runStep: statusManager.update('running', step.name,
\* currentProgress) before the step executes.
updateBeforeStep ==
  /\ runner.phase = "progress"
  /\ ~runner.progress.stopped /\ ~runner.progress.started
  /\ runner.progress.stepIndex < runner.progress.totalSteps
  /\ runner' = [runner EXCEPT
       !.progress.started = TRUE,
       !.progress.written =
          Append(@, progressOf(runner.progress, runner.progress.stepIndex))]
  /\ UNCHANGED <<writers, disk, mem, threw, pc, out, iters, sandbox, now,
                 restarts>>

\* Runner.run, ACPRunner.runStep: statusManager.update('running', step.name,
\* nextProgress) when the step succeeded, and no update when it failed;
\* runCommand then goes on to the next step, or leaves the loop when the step
\* failed and does not continue on error.
updateAfterStep ==
  /\ runner.phase = "progress" /\ runner.progress.started
  /\ \E success \in BOOLEAN, continueOnError \in BOOLEAN :
       runner' = [runner EXCEPT
         !.progress.started = FALSE,
         !.progress.stepIndex = @ + 1,
         !.progress.stopped = ~success /\ ~continueOnError,
         !.progress.written =
            IF success
            THEN Append(@, progressOf(runner.progress,
                                      runner.progress.stepIndex + 1))
            ELSE @]
  /\ UNCHANGED <<writers, disk, mem, threw, pc, out, iters, sandbox, now,
                 restarts>>

\* runCommand about to run a workflow of 1..MaxWorkflowSteps steps.
InitProgress ==
  /\ disk = NoFile
  /\ mem = NoData
  /\ threw = FALSE
  /\ pc = "idle"
  /\ out = Out(FALSE)
  /\ iters = [i \in Iterations |-> IF i = 1 THEN NewIter ELSE NoIter]
  /\ sandbox = NoSandbox
  /\ now = 1
  /\ restarts = 0
  /\ writers = NoWriters
  /\ \E kind \in {"run", "acp"}, totalSteps \in 1..MaxWorkflowSteps :
       runner = [NoRunner EXCEPT
                   !.phase = "progress", !.statusManager = TRUE,
                   !.progress = [NoProgress EXCEPT !.kind = kind,
                                                   !.totalSteps = totalSteps]]

NextProgress == updateBeforeStep \/ updateAfterStep

\* The status updates of one workflow run, by either runner.
SpecProgress == InitProgress /\ [][NextProgress]_vars

\* ------------------------------------------------- classifying a failure
\* The words and the separators an error text is made of.
Words ==
  {"quota", "Exceeded", "credits", "exhausted", "insufficient", "usage",
   "limit", "credit", "out", "of", "rate", "429", "1429", "wrong"}

Separators == {"_", " ", "-"}

\* String.prototype.lowerCase on a word (the pattern has the flag i).
lowerCase(w) == IF w = "Exceeded" THEN "exceeded" ELSE w

\* The characters of a text: each word followed by its separator.
RECURSIVE Flat(_)
Flat(p) ==
  IF p = << >> THEN << >>
  ELSE <<p[1][1], p[1][2]>> \o Flat(Tail(p))

\* ErrorTexts of three words that hold, or nearly hold, the longest phrase.
Idioms ==
  {<<"out", a, "of", b, "credits">> : a \in {"_", " "}, b \in {"_", " ", "-"}}

ErrorTexts ==
  {Flat(p) : p \in UNION {[1..n -> Words \X Separators] : n \in 0..MaxWords}}
  \cup Idioms

\* The texts a failed process may have written to its standard error.
Stderrs ==
  {Flat(p) : p \in UNION {[1..n -> {"quota", "Exceeded", "limit", "rate",
                                    "429", "wrong"} \X {"_", " "}] :
                            n \in 0..MaxWords}}
  \cup Idioms

\* A pattern that tells upper case from lower case.
CaseSensitivePattern(text) ==
  \E i \in 1..Len(text) :
    \/ text[i] \in {"429", "1429"}
    \/ /\ i + 2 <= Len(text)
       /\ text[i + 1] \in {"_", " ", "\n"}
       /\ <<text[i], text[i + 2]>> \in
            {<<"quota", "exceeded">>, <<"credits", "exhausted">>,
             <<"insufficient", "quota">>, <<"usage", "limit">>,
             <<"credit", "limit">>, <<"rate", "limit">>}

\* CREDIT_EXHAUSTED_PATTERN.test(text): quota[_\s]exceeded | credits[_\s]
\* exhausted | insufficient[_\s]quota | usage[_\s]limit | credit[_\s]limit |
\* out[_\s]of[_\s]credits | 429 | rate[_\s]limit, anywhere in the text and in
\* either case.
CREDIT_EXHAUSTED_PATTERN(text) ==
  \E i \in 1..Len(text) :
    \/ text[i] \in {"429", "1429"}
    \/ /\ i + 2 <= Len(text)
       /\ text[i + 1] \in {"_", " ", "\n"}
       /\ <<lowerCase(text[i]), lowerCase(text[i + 2])>> \in
            {<<"quota", "exceeded">>, <<"credits", "exhausted">>,
             <<"insufficient", "quota">>, <<"usage", "limit">>,
             <<"credit", "limit">>, <<"rate", "limit">>}
    \/ /\ i + 4 <= Len(text)
       /\ text[i + 1] \in {"_", " ", "\n"} /\ text[i + 3] \in {"_", " ", "\n"}
       /\ <<text[i], text[i + 2], text[i + 4]>> = <<"out", "of", "credits">>

\* String(stdout): the text of a process's standard output, a JSON document
\* {"error": {type, code, message}} included.
stdoutText(o) ==
  IF o.json THEN <<"{">> \o o.type \o <<",">> \o o.code \o <<",">>
                 \o o.message \o <<"}">>
  ELSE o.text

\* isCreditExhaustedError(error): the message (String(error) when the value
\* has none), stderr and stdout joined by newlines and tested against the
\* pattern.
isCreditExhaustedError(error) ==
  LET msg == CASE error.kind = "null" -> <<"null">>
               [] error.kind = "undefined" -> <<"undefined">>
               [] error.kind = "error" -> error.message
               [] OTHER -> <<"[object Object]">>
      stderr == IF error.kind = "output" THEN error.stderr ELSE << >>
      stdout == IF error.kind = "output" THEN stdoutText(error.stdout)
                ELSE << >>
  IN CREDIT_EXHAUSTED_PATTERN(msg \o <<"\n">> \o stderr \o <<"\n">> \o stdout)

\* errors.js parseAgentError, step (4): the type or code of a JSON error
\* object holds "quota" or "credit".
structuredCredit(o) ==
  /\ o.json
  /\ \E i \in 1..Len(o.type \o o.code) :
       lowerCase((o.type \o o.code)[i]) \in {"quota", "credit", "credits"}

\* errors.js parseAgentError(stderr, stdout, exitCode), steps (4) and (5):
\* whether the text or the JSON error object tells of exhausted credit.
creditExhausted(stderr, o) ==
  \/ CREDIT_EXHAUSTED_PATTERN(stderr \o <<"\n">> \o stdoutText(o))
  \/ structuredCredit(o)

\* A caller asks isCreditExhaustedError about the failure.
callIsCreditExhaustedError ==
  /\ runner.phase = "classify" /\ ~runner.classified.asked
  /\ runner' = [runner EXCEPT
       !.classified.asked = TRUE,
       !.classified.credit = isCreditExhaustedError(runner.classified)]
  /\ UNCHANGED <<writers, disk, mem, threw, pc, out, iters, sandbox, now,
                 restarts>>

\* A runner hands the output of a failed process to parseAgentError.
callParseAgentError ==
  /\ runner.phase = "classify" /\ ~runner.classified.parsed
  /\ runner.classified.kind = "output"
  /\ LET credit == creditExhausted(runner.classified.stderr,
                                   runner.classified.stdout)
         class == parseAgentError(credit)
     IN runner' = [runner EXCEPT
          !.classified.parsed = TRUE,
          !.classified.class = class,
          !.classified.code = ErrorCode(class),
          !.classified.isRetryable = isRetryable(class),
          !.classified.embedded =
             /\ class = "CreditExhaustedError"
             /\ runner.classified.stdout.json
             /\ runner.classified.stdout.message # << >>]
  /\ UNCHANGED <<writers, disk, mem, threw, pc, out, iters, sandbox, now,
                 restarts>>

\* The type and code fields of a JSON error object.
ErrorTags ==
  {<< >>, <<"quota", "_", "Exceeded">>, <<"credit", "_", "limit">>,
   <<"credit", "_", "wrong">>, <<"wrong">>}

\* What a failed process may have written to its standard output.
Stdouts ==
  {[json |-> FALSE, text |-> t, type |-> << >>, code |-> << >>,
    message |-> << >>] : t \in {<< >>, <<"Exceeded">>, <<"wrong">>}}
  \cup {[json |-> TRUE, text |-> << >>, type |-> tc[1], code |-> tc[2],
         message |-> m] :
          tc \in (ErrorTags \X {<< >>}) \cup ({<< >>} \X ErrorTags),
          m \in {<< >>, <<"insufficient", " ", "quota">>, <<"wrong">>}}

\* A failure of any kind, not yet classified.
InitClassify ==
  /\ disk = NoFile
  /\ mem = NoData
  /\ threw = FALSE
  /\ pc = "idle"
  /\ out = Out(FALSE)
  /\ iters = [i \in Iterations |-> IF i = 1 THEN NewIter ELSE NoIter]
  /\ sandbox = NoSandbox
  /\ now = 1
  /\ restarts = 0
  /\ writers = NoWriters
  /\ \/ \E k \in {"null", "undefined"} :
          runner = [NoRunner EXCEPT !.phase = "classify",
                                    !.classified.kind = k]
     \/ \E t \in ErrorTexts :
          runner = [NoRunner EXCEPT !.phase = "classify",
                                    !.classified.kind = "error",
                                    !.classified.message = t]
     \/ \E t \in Stderrs, o \in Stdouts :
          runner = [NoRunner EXCEPT !.phase = "classify",
                                    !.classified.kind = "output",
                                    !.classified.stderr = t,
                                    !.classified.stdout = o]

NextClassify == callIsCreditExhaustedError \/ callParseAgentError

\* One failure, classified by isCreditExhaustedError and by parseAgentError.
SpecClassify == InitClassify /\ [][NextClassify]_vars

\* ------------------------------------------------------ onComplete hooks
\* runCommand ends a workflow run: complete / fail / failCreditExhausted stamp
\* the status document with the time of the end, which is later than every
\* time stamped before the run.
runEnds ==
  /\ sandbox.phase = "steps" /\ iters[sandbox.iter].dir
  /\ now < MaxTime
  /\ now' = now + 1
  /\ \E s \in IterTerminal :
       iters' = [iters EXCEPT ![sandbox.iter] =
                   [dir |-> TRUE, status |-> s,
                    error |-> IF s = "completed" THEN UndefStr
                              ELSE FailureMessage(s),
                    at |-> now']]
  /\ sandbox' = NoSandbox
  /\ runner' = [runner EXCEPT !.hooks.arrivals = @ + 1]
  /\ UNCHANGED <<writers, disk, mem, threw, pc, out, restarts>>

\* listCommand, for the one task, with the hooks it executes: the status is
\* refreshed, and executeHooks runs the project's onComplete hooks when the
\* status is terminal and onCompleteHookFiredAt is not lastStatusCheck.
listRefreshes ==
  /\ pc = "idle" /\ disk.exists
  /\ Len(runner.hooks.executed) < MaxHooks
  /\ \E hooksConfigured \in BOOLEAN :
       LET task == updateStatusFromIteration(load(disk))
           isTerminalStatus ==
             task.data.status \in {"COMPLETED", "FAILED", "PAUSED_CREDITS"}
           hookAlreadyFired ==
             task.data.onCompleteHookFiredAt = task.data.lastStatusCheck
           executes == /\ ~task.threw /\ isTerminalStatus /\ ~hookAlreadyFired
                       /\ hooksConfigured
           done == IF executes
                   THEN setOnCompleteHookFiredAt(task, task.data.lastStatusCheck)
                   ELSE task
       IN /\ disk' = done.disk
          /\ mem' = done.data
          /\ threw' = done.threw
          /\ out' = Out(TRUE)
          /\ runner' = [runner EXCEPT
               !.hooks.configured = hooksConfigured,
               !.hooks.executed =
                  IF executes THEN Append(@, runner.hooks.arrivals) ELSE @]
  /\ UNCHANGED <<writers, pc, iters, sandbox, now, restarts>>

NextHooks ==
  \/ taskCommand \/ taskSandbox
  \/ restartCommand \/ restartSandbox
  \/ stopCommand
  \/ iterateCommand \/ iterateSandbox
  \/ mergeCommand
  \/ agentInit \/ agentStep \/ runEnds
  \/ listRefreshes

\* The commands, the runs of the agent and the refreshes of the task list.
SpecHooks == Init /\ [][NextHooks]_vars

\* ------------------------------------------------------------- properties
\* The highest-numbered iteration directory, read off the state (0: none).
HighestIteration ==
  IF \A i \in Iterations : ~iters[i].dir THEN 0
  ELSE CHOOSE i \in Iterations :
         iters[i].dir /\ \A j \in (i + 1)..MaxIter : ~iters[j].dir

\* The table from an iteration status to a task status.
StatusTable(s) ==
  IF s = "completed" THEN "COMPLETED"
  ELSE IF s = "failed" THEN "FAILED"
  ELSE IF s = "credit_exhausted" THEN "PAUSED_CREDITS"
  ELSE IF s = "running" THEN "ITERATING"
  ELSE "IN_PROGRESS"

C2_RejectedRestart ==
  [][ restartCommand
      /\ load(disk).data.status \notin {"NEW", "FAILED", "PAUSED_CREDITS"} =>
        /\ ~out'.success
        /\ disk' = disk
        /\ load(disk').data.status = load(disk).data.status
        /\ load(disk').data.restartCount = load(disk).data.restartCount
        /\ load(disk').data.lastRestartAt = load(disk).data.lastRestartAt
        /\ restarts' = restarts ]_vars

\* An IN_PROGRESS task that was never restarted, on which a restart is
\* rejected: the restart step is enabled and leaves description.json and the
\* failed output as they are.
C2_Witness ==
  /\ pc = "idle"
  /\ ~out.success
  /\ load(disk).data.status = "IN_PROGRESS"
  /\ load(disk).data.restartCount = UndefNum
  /\ load(disk).data.lastRestartAt = UndefNum
  /\ ENABLED (restartCommand /\ UNCHANGED <<writers, runner, disk, out>>)

\* C3 (as stated): updateStatusFromIteration sets the task status from the
\* status of the highest-numbered iteration by the table completed to
\* COMPLETED, failed to FAILED, credit_exhausted to PAUSED_CREDITS, running to
\* ITERATING, anything else to IN_PROGRESS; with no iteration the task is
\* left unchanged.
C3_TableAlways ==
  [][ listCommand =>
        IF HighestIteration = 0 THEN disk' = disk
        ELSE iters[HighestIteration].status # "missing" =>
               load(disk').data.status =
                 StatusTable(iters[HighestIteration].status) ]_vars

\* C3 (amended): when the highest-numbered iteration has a status document,
\* updateStatusFromIteration sets the task status from it by the table,
\* except that a task already MERGED or PUSHED keeps its status when that
\* iteration is completed; with no iteration the task is left unchanged.
C3_TableUnlessSticky ==
  [][ listCommand =>
        LET before == load(disk).data
            latest == iters[HighestIteration].status
        IN IF HighestIteration = 0 THEN disk' = disk
           ELSE latest # "missing" =>
                  load(disk').data.status =
                    IF latest = "completed" /\ before.status \in {"MERGED", "PUSHED"}
                    THEN before.status
                    ELSE StatusTable(latest) ]_vars

\* A second iteration completed after a failed first one, and list made the
\* task COMPLETED.
C3_Witness ==
  /\ pc = "idle"
  /\ out.success
  /\ ~threw
  /\ HighestIteration = 2
  /\ iters[1].status = "failed"
  /\ iters[2].status = "completed"
  /\ load(disk).data.status = "COMPLETED"

\* C4: after updateStatusFromIteration derives FAILED or PAUSED_CREDITS, the
\* task's error is the error recorded in the latest iteration's status
\* document, whatever error the task carried before.
C4_ErrorFromIteration ==
  [][ listCommand
      /\ HighestIteration # 0
      /\ iters[HighestIteration].status \in {"failed", "credit_exhausted"} =>
        /\ load(disk').data.status = StatusTable(iters[HighestIteration].status)
        /\ load(disk').data.error = iters[HighestIteration].error
        /\ load(disk').data.error # UndefStr ]_vars

\* A credit-exhausted iteration gave PAUSED_CREDITS and "Quota exceeded".
C4_Witness ==
  /\ pc = "idle"
  /\ out.success
  /\ HighestIteration # 0
  /\ iters[HighestIteration].status = "credit_exhausted"
  /\ iters[HighestIteration].error = "Quota exceeded"
  /\ load(disk).data.status = "PAUSED_CREDITS"
  /\ load(disk).data.error = "Quota exceeded"
  /\ load(disk).data.restartCount = 1

\* C5: a task that is MERGED or PUSHED and whose latest iteration reports
\* completed keeps its status and its completedAt through
\* updateStatusFromIteration.
C5_StickyMergedPushed ==
  [][ listCommand
      /\ load(disk).data.status \in {"MERGED", "PUSHED"}
      /\ HighestIteration # 0
      /\ iters[HighestIteration].status = "completed" =>
        /\ load(disk').data.status = load(disk).data.status
        /\ load(disk').data.completedAt = load(disk).data.completedAt ]_vars

\* A PUSHED task whose iteration completed at another time than the one the
\* task carries as completedAt, on which list runs and leaves
\* description.json as it is.
C5_Witness ==
  /\ pc = "idle"
  /\ out.success
  /\ ENABLED (listCommand /\ UNCHANGED <<writers, runner, disk, out>>)
  /\ load(disk).data.status = "PUSHED"
  /\ HighestIteration # 0
  /\ iters[HighestIteration].status = "completed"
  /\ load(disk).data.completedAt # UndefNum
  /\ load(disk).data.completedAt # iters[HighestIteration].at

\* C6: a merge or a push that leaves the task MERGED or PUSHED keeps a
\* completedAt that was set before, and stamps completedAt with the current
\* time only when it was not set.
C6_CompletedAtKept ==
  [][ (mergeCommand \/ pushCommand)
      /\ load(disk').data.status \in {"MERGED", "PUSHED"} =>
        load(disk').data.completedAt =
          IF load(disk).data.completedAt # UndefNum
          THEN load(disk).data.completedAt
          ELSE now ]_vars

\* A task completed at an earlier time has just been merged: completedAt is
\* the earlier time, lastStatusCheck the time of the merge.
C6_Witness ==
  /\ pc = "idle"
  /\ out.success
  /\ load(disk).data.status = "MERGED"
  /\ load(disk).data.completedAt # UndefNum
  /\ load(disk).data.lastStatusCheck = now
  /\ load(disk).data.completedAt < now

\* C7: the task status becomes PUSHED only from MERGED.
C7_PushedOnlyFromMerged ==
  [][ disk'.exists /\ disk.exists
      /\ load(disk').data.status = "PUSHED"
      /\ load(disk).data.status # "PUSHED" =>
        load(disk).data.status = "MERGED" ]_vars

\* C8: the task status becomes MERGED only by a merge command on a COMPLETED
\* task; a merge command on a task in any other status is rejected and
\* changes nothing, and a merge command that does not end with the task
\* MERGED (the git merge did not succeed) changes nothing either.
C8_MergedOnlyFromCompleted ==
  [][ /\ disk'.exists /\ disk.exists
         /\ load(disk').data.status = "MERGED"
         /\ load(disk).data.status # "MERGED" =>
           mergeCommand /\ load(disk).data.status = "COMPLETED"
      /\ mergeCommand /\ load(disk).data.status # "COMPLETED" =>
           disk' = disk /\ ~out'.success
      /\ mergeCommand /\ load(disk').data.status # "MERGED" =>
           disk' = disk ]_vars

\* A completed task has been merged: MERGED with the completion time and
\* error-free history of a task that list found COMPLETED.
C8_Witness ==
  /\ pc = "idle"
  /\ out.success
  /\ load(disk).data.status = "MERGED"
  /\ HighestIteration # 0
  /\ iters[HighestIteration].status = "completed"
  /\ load(disk).data.completedAt # UndefNum

\* C9: resetToNew takes a task document in any of the eight statuses to NEW
\* and saves it; a stop that goes through, and a sandbox that fails to start
\* in a restart or in a task creation, leave the task NEW on disk.
C9_ResetToNew ==
  [][ \/ pc = "idle" /\ out'.success /\ stopCommand
      \/ pc = "restart_sandbox" /\ ~out'.success /\ restartSandbox
      \/ /\ pc = "task_sandbox"
         /\ \E expanded \in {UndefStr, "Fix bug"} : startTask(TRUE, expanded, FALSE)
      => /\ load(disk').data.status = "NEW"
         /\ mem'.status = "NEW"
         /\ \A s \in TaskStatus :
              LET r == resetToNew(Manager([load(disk).data EXCEPT !.status = s], disk))
              IN /\ ~r.threw
                 /\ r.data.status = "NEW"
                 /\ load(r.disk).data.status = "NEW" ]_vars

\* The sandbox failed to start in a restart: the restarted task is NEW again.
C9_Witness ==
  /\ pc = "idle"
  /\ ~out.success
  /\ load(disk).data.status = "NEW"
  /\ load(disk).data.restartCount >= 1
  /\ load(disk).data.lastStatusCheck # UndefNum
  /\ load(disk).data.worktreePath = Workspace

\* The mutating methods of the task, applied to the manager M.
Mutations(M) ==
  {setStatus(M, s, UndefNum, e) : s \in TaskStatus, e \in {UndefStr, "Step failed"}}
  \cup {restart(M, now)}
  \cup {incrementIteration(M)}
  \cup {setWorkspace(M, w) : w \in {"", Workspace}}
  \cup {updateTitle(M, t) : t \in {"", "Fix bug"}}
  \cup {setContainerInfo(M, c) : c \in {"", ContainerId}}
  \cup {setOnCompleteHookFiredAt(M, now)}

\* C10: when a mutating method of the task returns normally, description.json
\* is the serialization of the in-memory task and satisfies the schema; the
\* document on disk is schema-valid in every state, and it is the in-memory
\* task of the command whenever the command's last method returned normally.
C10_SavedAndValid ==
  /\ disk.exists => SchemaValid(load(disk).data)
  /\ disk.exists /\ ~threw => disk.json = Serialize(mem) /\ load(disk).data = mem
  /\ disk.exists =>
       \A r \in Mutations(load(disk)) :
         ~r.threw => /\ r.disk.exists
                     /\ r.disk.json = Serialize(r.data)
                     /\ load(r.disk).data = r.data
                     /\ SchemaValid(load(r.disk).data)

\* iterate has incremented the iteration counter and marked the task
\* ITERATING: both are on disk.
C10_Witness ==
  /\ pc = "iterate_sandbox"
  /\ ~threw
  /\ mem.iterations = 2
  /\ mem.status = "ITERATING"
  /\ load(disk).data = mem

\* C11: when a mutating method would produce a document that fails schema
\* validation, the method raises and description.json is what it was before
\* the call: nothing is written.
C11_FailedValidationWritesNothing ==
  /\ disk.exists =>
       \A r \in Mutations(load(disk)) :
         ~SchemaValid(r.data) => r.threw /\ r.disk = disk
  /\ threw /\ ~SchemaValid(mem) =>
       /\ disk.exists
       /\ SchemaValid(load(disk).data)
       /\ load(disk).data = [mem EXCEPT !.title = load(disk).data.title]

\* The AI expansion returned an empty title: updateTitle raised, the task in
\* memory carries the empty title and the file still carries the old one.
C11_Witness ==
  /\ pc = "idle"
  /\ threw
  /\ mem.title = ""
  /\ disk.exists
  /\ load(disk).data.title = "Fix bug"
  /\ load(disk).data.status = "IN_PROGRESS"

C14_CreditExhaustedRunPauses ==
  [][/\ sandbox.phase \in {"summary", "exit"}
     /\ sandbox'.phase = "off"
     /\ \E i \in DOMAIN sandbox.run.stepResults :
          sandbox.run.stepResults[i].errorCode = "CREDIT_EXHAUSTED"
     => /\ iters'[sandbox.iter].status = "credit_exhausted"
        /\ DerivedStatus(iters'[sandbox.iter].status) = "PAUSED_CREDITS"]_vars

\* The step runner has finished: it returned a result or threw.
RunnerDone == runner.phase \in {"returned", "threw"}

\* The class a failed launch gets by the priority authentication detected,
\* timeout, cancellation, credit exhaustion, generic, read off the state.
PriorityClass ==
  IF runner.authDetected THEN "AuthenticationError"
  ELSE IF runner.result.timedOut THEN "TimeoutError"
  ELSE IF runner.result.isCanceled THEN "AuthenticationError"
  ELSE IF runner.result.credit THEN "CreditExhaustedError"
  ELSE "AgentError"

\* C15: if the stderr accumulated during a step ever matches the
\* awaiting-authentication pattern, the abort signal is triggered exactly once,
\* on the first match, and the step returns a failure classified
\* AuthenticationError whatever the exit code, 0 included.
C15_AuthDetectedAbortsOnceAndFails ==
  /\ runner.aborts = IF runner.stderrBuffer THEN 1 ELSE 0
  /\ runner.stderrBuffer /\ RunnerDone =>
       /\ runner.phase = "returned"
       /\ ~runner.success
       /\ runner.agentError = "AuthenticationError"
       /\ runner.outputs.error = "AuthenticationError"

\* Two chunks were seen with the buffer matching, the process exited with code
\* 0, and the step failed.
C15_Witness ==
  /\ runner.phase = "returned"
  /\ runner.stderrBuffer
  /\ runner.chunks = MaxChunks
  /\ runner.aborts = 1
  /\ runner.result.exitCode = 0
  /\ ~runner.success

\* C16: a failed step is classified by the priority authentication detected,
\* timeout exceeded, canceled without timeout (AuthenticationError), credit
\* exhaustion, generic; a TimeoutError carries the configured timeout, also when
\* the output contains credit-exhaustion text.
C16_ClassificationPriority ==
  runner.phase = "returned" /\ ~runner.success =>
    /\ runner.agentError = PriorityClass
    /\ runner.outputs.error = PriorityClass
    /\ PriorityClass = "TimeoutError" => runner.errorTimeout = runner.timeout * 1000

\* A step that timed out, with credit-exhaustion text in its output and no
\* authentication match, has failed with a TimeoutError.
C16_Witness ==
  /\ runner.phase = "returned"
  /\ ~runner.success
  /\ ~runner.authDetected
  /\ runner.result.timedOut
  /\ runner.result.credit
  /\ runner.agentError = "TimeoutError"
  /\ runner.errorTimeout = 60000

C18_OutputsCarryKeys ==
  runner.phase = "returned" =>
    /\ {"raw_output", "input_prompt"} \subseteq DOMAIN runner.outputs
    /\ ~runner.success =>
         {"error", "error_code", "error_retryable"} \subseteq DOMAIN runner.outputs

\* C19: a launched step always ends with the runner returning a step result;
\* an exception of the output extraction gives a failed result and does not
\* leave the runner as an exception.
C19_RunnerAlwaysReturns ==
  RunnerDone => runner.phase = "returned"

\* The declared string output cannot be found in the response the step got.
StringOutputMissing ==
  LET content == responseContent(runner.tool, runner.raw)
  IN /\ runner.strings
     /\ ~(content.kind \in {"object", "fenced"} /\ content.has)

\* C20: a declared string output that cannot be found in the response has the
\* value "[Not found in response]", also when no JSON object can be recovered,
\* a declared file output whose file does not exist has the value
\* "[File not created]", and the step is a success in both cases.
C20_SentinelsNeverFail ==
  RunnerDone /\ "raw_output" \in DOMAIN runner.outputs =>
    /\ StringOutputMissing =>
         /\ runner.phase = "returned" /\ runner.success
         /\ runner.outputs.summary = NotFound
    /\ runner.files /\ runner.file = "absent" =>
         /\ runner.phase = "returned" /\ runner.success
         /\ runner.outputs.plan = FileNotCreated

\* A step of the model in which the caller called method m of the ACP runner.
Called(m) ==
  /\ ~runner.acp.pending
  /\ runner'.acp.last = m
  /\ runner' # runner

\* C21: a connection has at most one open session: createSession while a
\* session is open raises and leaves the session id unchanged, and
\* createSession, sendPrompt and runStep raise while the connection has not
\* completed its handshake.
C21_OneOpenSession ==
  [][/\ (Called("createSession") /\ runner.acp.isSessionCreated)
          => /\ runner'.acp.raised
             /\ runner'.acp.sessionId = runner.acp.sessionId
             /\ runner'.acp.sessions = runner.acp.sessions
     /\ ((Called("createSession") \/ Called("sendPrompt") \/ Called("runStep"))
          /\ ~runner.acp.isConnectionInitialized)
          => /\ runner'.acp.raised
             /\ runner'.acp.sessionId = runner.acp.sessionId
             /\ ~runner'.acp.pending
             /\ runner'.acp.prompts = runner.acp.prompts
     /\ runner'.acp.isSessionCreated <=> runner'.acp.sessionId # 0]_vars

\* createSession was called while a session was open, and raised.
C21_Witness ==
  /\ runner.acp.last = "createSession"
  /\ runner.acp.raised
  /\ runner.acp.isSessionCreated
  /\ runner.acp.sessionId = 1

\* C22: closeSession clears the session id and the session flag and nothing
\* else: process, connection and handshake stay, so that the next
\* createSession succeeds with no new process and no new handshake; with no
\* session open it changes nothing.
C22_CloseSessionFrame ==
  [][Called("closeSession") =>
       /\ runner' = [runner EXCEPT !.acp.sessionId = 0,
                                   !.acp.isSessionCreated = FALSE,
                                   !.acp.raised = FALSE,
                                   !.acp.last = "closeSession"]
       /\ ~runner.acp.isSessionCreated =>
            /\ runner'.acp.sessionId = runner.acp.sessionId
            /\ runner'.acp.isSessionCreated = runner.acp.isSessionCreated
       /\ runner.acp.isConnectionInitialized =>
            LET B == createSession(runner'.acp, TRUE)
            IN /\ ~B.raised /\ B.isSessionCreated
               /\ B.agentProcess = "alive"
               /\ B.spawns = runner.acp.spawns
               /\ B.handshakes = runner.acp.handshakes]_vars

\* A second session was created on the connection of a closed first one.
C22_Witness ==
  /\ runner.acp.last = "createSession"
  /\ ~runner.acp.raised
  /\ runner.acp.sessionId = 2
  /\ runner.acp.spawns = 1
  /\ runner.acp.handshakes = 1

\* The disconnected state: no process, no connection, no session, no handshake.
Disconnected(A) ==
  /\ A.agentProcess = "null" /\ A.alive = 0 /\ ~A.connection
  /\ A.sessionId = 0 /\ ~A.isSessionCreated /\ ~A.isConnectionInitialized

\* C23: close terminates the agent process if there is one and leaves the
\* runner disconnected; on a disconnected runner it does not raise and changes
\* nothing; after it createSession, sendPrompt and runStep raise.
C23_CloseDisconnects ==
  [][Called("close") =>
       /\ Disconnected(runner'.acp)
       /\ ~runner'.acp.raised
       /\ Disconnected(runner.acp) =>
            runner' = [runner EXCEPT !.acp.raised = FALSE, !.acp.last = "close"]
       /\ createSession(runner'.acp, TRUE).raised
       /\ sendPromptStart(runner'.acp).raised
       /\ ~sendPromptStart(runner'.acp).pending
       /\ ~runStepGuards(runner'.acp)]_vars

\* A runner with a process, a handshake and a session was closed.
C23_Witness ==
  /\ runner.acp.last = "close"
  /\ runner.acp.spawns = 1
  /\ runner.acp.handshakes = 1
  /\ runner.acp.sessions = 1
  /\ runner.acp.agentProcess = "null"

\* C24: whenever sendPrompt returns or raises the client has stopped capturing
\* and holds no text, so the response of a prompt carries only text captured
\* while that prompt was awaited.
C24_CapturingStopped ==
  [][/\ (runner.acp.pending /\ ~runner'.acp.pending)
          => /\ ~runner'.acp.capturing
             /\ runner'.acp.captured = {}
             /\ ~runner'.acp.raised
                  => runner'.acp.response \subseteq {runner.acp.prompts}
     /\ (Called("sendPrompt") /\ runner'.acp.raised)
          => ~runner'.acp.capturing /\ runner'.acp.captured = {}
     /\ Called("runStep")
          => /\ ~runner'.acp.capturing
             /\ runner'.acp.captured = {}
             /\ runner'.acp.response \subseteq {runner'.acp.prompts}]_vars

\* The second prompt of a runner returned with the text of that prompt.
C24_Witness ==
  /\ runner.acp.last = "sendPrompt"
  /\ ~runner.acp.pending
  /\ ~runner.acp.raised
  /\ runner.acp.prompts = 2
  /\ runner.acp.response = {2}

\* C25: when the spawn or the handshake fails, initializeConnection raises with
\* the agent process terminated and the runner disconnected (no process, no
\* connection, no handshake); the handshake is attempted at most once and no
\* prompt is sent.
C25_FailedInitDisconnects ==
  [][(Called("initializeConnection") /\ runner'.acp.raised) =>
       /\ Disconnected(runner'.acp)
       /\ runner'.acp.handshakes <= runner.acp.handshakes + 1
       /\ runner'.acp.prompts = runner.acp.prompts]_vars

\* C26: in a run in ACP mode no session is open when the session of a step is
\* about to be created, the runner is disconnected, with no agent process
\* alive, from before the final status is reported, and every run ends so.
C26_SessionsAndRunnerClosed ==
  /\ [](sandbox.phase = "acpSession"
          => ~runner.acp.isSessionCreated /\ runner.acp.sessionId = 0)
  /\ [](sandbox.phase \in {"summary", "exit", "off"}
          => Disconnected(runner.acp))
  /\ [](iters[1].status \in IterTerminal => Disconnected(runner.acp))
  /\ <>[](sandbox.phase = "off" /\ Disconnected(runner.acp))

\* A run of two steps, each in its own session, has ended with the runner closed.
C26_Witness ==
  /\ sandbox.phase = "off"
  /\ runner.acp.sessions = 2
  /\ runner.acp.prompts = 2
  /\ runner.acp.spawns = 1
  /\ Disconnected(runner.acp)

\* C27: a failed step of the session runner carries the code CREDIT_EXHAUSTED
\* exactly when its error message matches the credit-exhaustion pattern, and no
\* code at all otherwise: never that of another error class.
C27_SessionFailureCodes ==
  (runner.acp.last = "runStep" /\ ~runner.acp.raised
     /\ runner.phase = "returned" /\ ~runner.success)
    => /\ runner.errorCode = "CREDIT_EXHAUSTED" <=> runner.result.credit
       /\ ~runner.result.credit => runner.errorCode = UndefStr
       /\ runner.errorCode \notin
            {ErrorCode(c) : c \in ErrorClasses \ {"CreditExhaustedError"}}
       /\ "error" \in DOMAIN runner.outputs

\* A step failed in the session runner with a credit-exhaustion message.
C27_Witness ==
  /\ runner.acp.last = "runStep"
  /\ runner.phase = "returned"
  /\ ~runner.success
  /\ runner.result.credit
  /\ runner.errorCode = "CREDIT_EXHAUSTED"

\* A step failed although the workflow does not continue on errors.
StoppedByFailure ==
  /\ ~sandbox.run.continueOnError
  /\ \E i \in 1..Len(sandbox.run.stepResults) :
       ~sandbox.run.stepResults[i].success

\* Steps run one at a time in workflow order: a step is started when every
\* started step has its result, and it is the next step of the workflow; a
\* result belongs to the step started last; after a failure without
\* continueOnError no step is started; stepsOutput holds outputs of
\* successful steps only.
StepsInOrder ==
  /\ [][sandbox'.run.runSteps > sandbox.run.runSteps
          => (/\ sandbox'.run.runSteps = sandbox.run.runSteps + 1
              /\ Len(sandbox.run.stepResults) = sandbox.run.runSteps
              /\ sandbox'.run.runSteps = sandbox.run.stepIndex + 1
              /\ ~StoppedByFailure)]_vars
  /\ [][(sandbox'.run.stepResults # sandbox.run.stepResults
           /\ sandbox'.phase # "off")
          => (/\ Len(sandbox'.run.stepResults) = sandbox.run.runSteps
              /\ Len(sandbox.run.stepResults) = sandbox.run.runSteps - 1)]_vars
  /\ [](\A i \in sandbox.run.visible :
          /\ i <= Len(sandbox.run.stepResults)
          /\ sandbox.run.stepResults[i].success)

ValueExists(P, token) ==
  LET parts == split(token)
  IN \/ Len(parts) = 2 /\ parts[1] = "inputs" /\ inputsGet(P, parts[2]).def
     \/ /\ Len(parts) = 4 /\ parts[1] = "steps" /\ parts[3] = "outputs"
        /\ stepOutputsHas(P, parts[4])

\* The value of such a placeholder: the input, the string output, the content
\* of the file output (its path when there is no content).
ValueOf(P, token) ==
  LET parts == split(token)
  IN IF Len(parts) = 2 THEN inputsGet(P, parts[2]).text
     ELSE IF outputDef(parts[4]) = "file" /\ P.file = "readable"
     THEN <<"content">>
     ELSE stepOutputsGet(P, parts[4]).text

\* A template with every placeholder whose value exists replaced by that
\* value, verbatim, and every other piece left as it is.
RECURSIVE Substituted(_, _)
Substituted(P, text) ==
  IF text = << >> THEN << >>
  ELSE (IF Head(text) \in Placeholders /\ ValueExists(P, Head(text))
        THEN ValueOf(P, Head(text)) ELSE <<Head(text)>>)
       \o Substituted(P, Tail(text))

\* C29: every placeholder that is well formed and whose value exists is
\* replaced by that value without a warning; every other placeholder is left
\* in the prompt and produces exactly one warning; the prompt is always built.
C29_ReplacedOrWarnedOnce ==
  (runner.phase = "prompt" /\ runner.prompt.built) =>
    LET P == runner.prompt
    IN /\ P.final = Substituted(P, P.template)
                      \o generateOutputInstructions(runner)
       /\ Len(P.warnings) =
            Cardinality({i \in 1..Len(P.template) :
                           /\ P.template[i] \in Placeholders
                           /\ ~ValueExists(P, P.template[i])})

\* A template with every placeholder the runner resolved replaced by the
\* value the runner resolved it to, verbatim.
RECURSIVE Literal(_, _)
Literal(P, text) ==
  IF text = << >> THEN << >>
  ELSE (IF Head(text) \in Placeholders /\ resolve(P, Head(text)).value.def
        THEN resolve(P, Head(text)).value.text ELSE <<Head(text)>>)
       \o Literal(P, Tail(text))

\* C30: replacement is literal and per occurrence: the final prompt is the
\* template with each resolved placeholder replaced by its own value, which
\* appears verbatim, whatever the values contain.
C30_LiteralPerOccurrence ==
  (runner.phase = "prompt" /\ runner.prompt.built) =>
    runner.prompt.final = Literal(runner.prompt, runner.prompt.template)
                            \o generateOutputInstructions(runner)

\* C31: in both runners a placeholder for a file output of an executed step
\* is replaced by the content of the file, without a warning; when the
\* content cannot be obtained it is replaced by the path, with one warning
\* for each occurrence.
C31_FileContentOrPath ==
  (/\ runner.phase = "prompt" /\ runner.prompt.built
   /\ runner.prompt.s1 = "full"
   /\ \A i \in 1..Len(runner.prompt.template) :
        runner.prompt.template[i] \in {"text", "{{steps.s1.outputs.f}}"})
    => LET P == runner.prompt
           files == {i \in 1..Len(P.template) : P.template[i] # "text"}
       IN /\ P.final =
               [i \in 1..Len(P.template) |->
                  IF i \notin files THEN "text"
                  ELSE IF P.file = "readable" THEN "content" ELSE "path"]
                 \o generateOutputInstructions(runner)
          /\ Len(P.warnings) =
               IF P.file = "readable" THEN 0 ELSE Cardinality(files)

\* C32: when two processes that loaded the same document have both written,
\* the file is the complete document of the one that wrote last, and while
\* only one has written it is never a mixture of two documents.
C32_LastWriteWins ==
  (/\ writers.last # 0
   /\ \A p \in {1, 2} : writers.procs[p].stage # "opened")
    => disk.json = Serialize(writers.procs[writers.last].data)

CreditPhrases ==
  {<<a, sep, b>> : sep \in {"_", " ", "\n"},
                   a \in {"quota"}, b \in {"exceeded"}}
  \cup {<<"credits", sep, "exhausted">> : sep \in {"_", " ", "\n"}}
  \cup {<<"insufficient", sep, "quota">> : sep \in {"_", " ", "\n"}}
  \cup {<<"usage", sep, "limit">> : sep \in {"_", " ", "\n"}}
  \cup {<<"credit", sep, "limit">> : sep \in {"_", " ", "\n"}}
  \cup {<<"rate", sep, "limit">> : sep \in {"_", " ", "\n"}}
  \cup {<<"out", a, "of", b, "credits">> : a, b \in {"_", " ", "\n"}}
  \cup {<<"429">>, <<"1429">>}

\* The text, in lower case, holds one of the phrases.
HoldsCreditPhrase(text) ==
  \E ph \in CreditPhrases : \E i \in 0..(Len(text) - Len(ph)) :
    \A j \in 1..Len(ph) :
      (IF text[i + j] = "Exceeded" THEN "exceeded" ELSE text[i + j]) = ph[j]

\* The cases of the failure at hand: its text holds a credit phrase; its JSON
\* error object has a type or code naming quota or credit.
TextCase ==
  HoldsCreditPhrase(
    (IF runner.classified.kind = "error" THEN runner.classified.message
     ELSE runner.classified.stderr) \o <<"\n">> \o
    (IF runner.classified.stdout.json
     THEN runner.classified.stdout.type \o <<",">>
          \o runner.classified.stdout.code \o <<",">>
          \o runner.classified.stdout.message
     ELSE runner.classified.stdout.text))

JsonCase ==
  /\ runner.classified.stdout.json
  /\ \E x \in {"quota", "credit"} :
       \/ \E i \in 1..Len(runner.classified.stdout.type) :
            runner.classified.stdout.type[i] = x
       \/ \E i \in 1..Len(runner.classified.stdout.code) :
            runner.classified.stdout.code[i] = x

\* C34: a failure whose text matches a credit or quota phrase, or whose JSON
\* error object has a type or code containing quota or credit, is classified
\* CreditExhaustedError with code CREDIT_EXHAUSTED and isRetryable true; one
\* that matches none is a generic AgentError that is not retryable; null and
\* undefined are never taken for credit exhaustion.
C34_CreditClassification ==
  /\ runner.classified.parsed =>
       IF TextCase \/ JsonCase
       THEN /\ runner.classified.class = "CreditExhaustedError"
            /\ runner.classified.code = "CREDIT_EXHAUSTED"
            /\ runner.classified.isRetryable
       ELSE /\ runner.classified.class = "AgentError"
            /\ ~runner.classified.isRetryable
  /\ runner.classified.asked =>
       /\ runner.classified.kind \in {"null", "undefined"}
            => ~runner.classified.credit
       /\ runner.classified.kind = "error"
            => (runner.classified.credit <=> TextCase)

\* A process whose output names the quota only in upper case and in the code
\* of its JSON error object has been classified both ways.
C34_Witness ==
  /\ runner.classified.parsed /\ runner.classified.asked
  /\ runner.classified.class = "CreditExhaustedError"
  /\ runner.classified.code = "CREDIT_EXHAUSTED"
  /\ runner.classified.stderr = <<"wrong", " ">>
  /\ runner.classified.stdout.code = <<"quota", "_", "Exceeded">>
  /\ runner.classified.embedded

\* C35: over any number of list refreshes the onComplete hooks are executed at
\* most once for each end of a run that brought the task to COMPLETED, FAILED
\* or PAUSED_CREDITS, and never without one; and a refresh of a project with
\* hooks that leaves the task in a terminal status executes them when they
\* have not been executed for the latest end of a run, so also for the run
\* that followed an iterate or a restart.
C35_HooksOncePerArrival ==
  /\ [](\A i, j \in 1..Len(runner.hooks.executed) :
          /\ runner.hooks.executed[i] >= 1
          /\ i # j => runner.hooks.executed[i] # runner.hooks.executed[j])
  /\ [][ ( /\ listRefreshes
           /\ runner'.hooks.configured
           /\ ~threw'
           /\ mem'.status \in {"COMPLETED", "FAILED", "PAUSED_CREDITS"}
           /\ \A i \in 1..Len(runner.hooks.executed) :
                runner.hooks.executed[i] # runner.hooks.arrivals )
         => ( /\ Len(runner'.hooks.executed) = Len(runner.hooks.executed) + 1
              /\ runner'.hooks.executed[Len(runner'.hooks.executed)]
                   = runner.hooks.arrivals ) ]_vars

\* The hooks have been executed for the first run and again for the run that
\* followed a restart, and a further refresh has left it at that.
C35_Witness ==
  /\ runner.hooks.executed = <<1, 2>>
  /\ restarts >= 1
  /\ mem.restartCount >= 1
  /\ mem.status \in {"FAILED", "PAUSED_CREDITS", "COMPLETED"}
  /\ mem.onCompleteHookFiredAt = mem.lastStatusCheck
  /\ ~runner.hooks.configured

\* C36: the iteration counter is 1 at creation and never decreases; it changes
\* only by +1, in an iterate command that was accepted and that also sets the
\* status ITERATING; an accepted iterate adds one; an iterate command for a
\* task that is IN_PROGRESS or ITERATING is rejected and leaves the document,
\* counter and status included, as it was.
C36_IterationCounter ==
  /\ [][ (~disk.exists /\ disk'.exists)
           => load(disk').data.iterations = 1 ]_vars
  /\ [][ (disk.exists /\ disk'.exists)
           => /\ load(disk').data.iterations >= load(disk).data.iterations
              /\ load(disk').data.iterations # load(disk).data.iterations
                   => ( /\ iterateCommand
                        /\ load(disk').data.iterations
                             = load(disk).data.iterations + 1
                        /\ load(disk').data.status = "ITERATING" ) ]_vars
  /\ [][ (iterateCommand /\ pc' = "iterate_sandbox")
           => /\ load(disk').data.iterations = load(disk).data.iterations + 1
              /\ load(disk').data.status = "ITERATING" ]_vars
  /\ [][ (iterateCommand
          /\ load(disk).data.status \in {"IN_PROGRESS", "ITERATING"})
           => (disk' = disk /\ ~out'.success /\ pc' = "idle") ]_vars

\* A task whose first run completed has been iterated: the counter is 2, the
\* status ITERATING, and the command that ran last has ended without success.
C36_Witness ==
  /\ disk.exists
  /\ load(disk).data.iterations = 2
  /\ load(disk).data.status = "ITERATING"
  /\ iters[2].dir /\ iters[1].status = "completed"
  /\ pc = "idle" /\ ~out.success

\* C37: the subprocess runner returns success exactly when it classified no
\* error for the step, whatever the declared outputs are called, an output
\* called error included.
C37_SuccessIffNoError ==
  runner.phase = "returned"
    => (runner.success <=> runner.agentError = "none")

\* C38: after an accepted restart the task stays IN_PROGRESS until the
\* restarted run writes its first iteration status: a refresh by the list
\* command while the new sandbox has written nothing yet does not take the
\* task back to FAILED or PAUSED_CREDITS, and a refresh of a task that was
\* reset to NEW, with no sandbox running, leaves it NEW.
C38_RestartOutlastsRefresh ==
  /\ [][ ( /\ listCommand
           /\ sandbox.phase = "boot"
           /\ load(disk).data.status = "IN_PROGRESS"
           /\ load(disk).data.restartCount >= 1 )
         => load(disk').data.status = "IN_PROGRESS" ]_vars
  /\ [][ ( /\ listCommand
           /\ sandbox.phase = "off"
           /\ load(disk).data.status = "NEW" )
         => load(disk').data.status = "NEW" ]_vars

\* C39: a workflow run reports success, and its iteration is marked completed,
\* only if every step that was run returned success; the failed steps of the
\* summary count every step that returned a failure, those the run continued
\* after included.
C39_SuccessOnlyIfEveryStepSucceeded ==
  sandbox.phase = "exit" =>
    /\ sandbox.run.success =>
         \A i \in DOMAIN sandbox.run.stepResults :
           sandbox.run.stepResults[i].success
    /\ iters[sandbox.iter].status = "completed" =>
         \A i \in DOMAIN sandbox.run.stepResults :
           sandbox.run.stepResults[i].success
    /\ \A i \in DOMAIN sandbox.run.stepResults :
         ~sandbox.run.stepResults[i].success
           => sandbox.run.runSteps - sandbox.run.stepsOutput >= 1

\* C40: a restart command that passed its status check and ends with an error,
\* before or at the start of the sandbox, leaves the task NEW, FAILED or
\* PAUSED_CREDITS, so that restart is accepted again, and never IN_PROGRESS
\* with no sandbox started.
C40_FailedRestartCanBeRepeated ==
  /\ [][ ( /\ restartCommand
           /\ load(disk).data.status \in {"NEW", "FAILED", "PAUSED_CREDITS"}
           /\ pc' = "idle" /\ ~out'.success )
         => load(disk').data.status \in {"NEW", "FAILED", "PAUSED_CREDITS"}
       ]_vars
  /\ [][ (restartSandbox /\ ~out'.success)
         => load(disk').data.status \in {"NEW", "FAILED", "PAUSED_CREDITS"}
       ]_vars

====
